---- MODULE Spec2Model ----
(***************************************************************************)
(* Model of the Lance namespace adapters (Hive3 metastore, Iceberg REST    *)
(* catalog, Gravitino Lance REST service).  An adapter instance is one of  *)
(* the three classes; the catalog it talks to is modelled as the state of  *)
(* the backend, every adapter method is one action.                        *)
(***************************************************************************)
EXTENDS Integers, Sequences, FiniteSets, TLC

\* ---------------------------------------------------------------- bounds
\* largest number of table entries a backend catalog holds
MaxTables == 2
\* largest number of segments of an identifier handed to the Gravitino codec
MaxSegs == 2
\* largest number of characters of one segment handed to the Gravitino codec
MaxSegLen == 3
\* largest number of threads that call one Hive3Namespace instance
MaxThreads == 2
\* largest number of operations called on that instance
MaxOps == 3
\* largest number of metastore calls inside one operation
MaxCalls == 2
\* largest number of times a Hive3Namespace object is pickled and restored
MaxRestores == 2

\* ------------------------------------------------------- python helpers
\* Python's None, for a string and for a location
None == "None"
NoLocation == <<>>

\* an empty dict
EmptyDict == [k \in {} |-> ""]

\* dict.get(key, default)
DictGet(d, k, dflt) == IF k \in DOMAIN d THEN d[k] ELSE dflt

\* dict.update(other)
DictUpdate(d, e) ==
  [k \in (DOMAIN d) \cup (DOMAIN e) |-> IF k \in DOMAIN e THEN e[k] ELSE d[k]]

\* truthiness of an optional dict: None and {} are both falsy, and the code
\* reads an optional dict only through its truthiness, so both are EmptyDict
Truthy(d) == DOMAIN d # {}

\* str.lower() on the strings of the model
Lower(s) ==
  CASE s = "LANCE" -> "lance"
    [] s = "Lance" -> "lance"
    [] s = "D1" -> "d1"
    [] s = "CREATE" -> "create"
    [] s = "EXIST_OK" -> "exist_ok"
    [] s = "OVERWRITE" -> "overwrite"
    [] OTHER -> s

\* all orders in which a backend may report the members of a set
Perms(S) ==
  {p \in [1..Cardinality(S) -> S] : \A i, j \in 1..Cardinality(S) : p[i] = p[j] => i = j}

\* s starts with p
IsPrefix(p, s) == Len(p) <= Len(s) /\ SubSeq(s, 1, Len(p)) = p

\* the members of a sequence
Range(s) == {s[i] : i \in DOMAIN s}

\* lexicographic rank of the names of the model (Python's str ordering)
NameRank(n) ==
  CASE n = "d1" -> 1 [] n = "default" -> 2 [] n = "hive" -> 3 [] n = "n1" -> 4
    [] n = "n2" -> 5 [] n = "spark" -> 6 [] n = "t1" -> 7 [] n = "t2" -> 8
    [] OTHER -> 9

\* sorted(set(names)) for a sequence of names
RECURSIVE SortedOfSet(_)
SortedOfSet(S) ==
  IF S = {} THEN <<>>
  ELSE LET m == CHOOSE x \in S : \A y \in S : NameRank(x) <= NameRank(y)
       IN <<m>> \o SortedOfSet(S \ {m})

SortedSet(names) == SortedOfSet(Range(names))

\* ------------------------------------------------------------ variables
VARIABLES
  adapter,        \* the class of the adapter instance: "hive3", "iceberg", "gravitino"
  hiveDbs,        \* Hive metastore: the database objects
  hiveTables,     \* Hive metastore: the table objects
  hiveClient,     \* Hive3Namespace._client and the state of its Thrift transport
  iceNs,          \* Iceberg catalog: the namespaces
  iceTables,      \* Iceberg catalog: the tables
  gravNs,         \* Gravitino: the namespaces (catalogs and schemas)
  gravTables,     \* Gravitino: the registered tables
  res,            \* what the last adapter call returned or raised
  codec,          \* the Gravitino codec applied to one identifier
  conc,           \* threads inside operations of one adapter instance
  inst            \* the attributes of a Hive3Namespace object

hiveVars == <<hiveDbs, hiveTables, hiveClient>>
iceVars == <<iceNs, iceTables>>
gravVars == <<gravNs, gravTables>>
vars == <<adapter, hiveDbs, hiveTables, hiveClient, iceNs, iceTables,
          gravNs, gravTables, res, codec, conc, inst>>

\* the result of a call: op is the request, err = "ok" when the call returned,
\* otherwise the class of the exception that reached the caller; inner is the
\* exception that was raised inside the method's try block
NoRes ==
  [op |-> [name |-> "none"], id |-> <<>>, err |-> "none", msg |-> "", status |-> 0,
   inner |-> [cls |-> "none", status |-> 0],
   location |-> NoLocation, names |-> <<>>, properties |-> EmptyDict,
   calls |-> <<>>, lookupsFailed |-> FALSE]

Returned(op, id, calls) ==
  [NoRes EXCEPT !.op = op, !.id = id, !.err = "ok", !.calls = calls]

Raised(op, id, cls, msg, calls) ==
  [NoRes EXCEPT !.op = op, !.id = id, !.err = cls, !.msg = msg, !.calls = calls]

\* the fault an action is given: which backend call of the operation fails
\* (0: none)

\* ------------------------------------------------------------ Hive3
TABLE_TYPE_KEY == "table_type"
LANCE_TABLE_FORMAT == "lance"
MANAGED_BY_KEY == "managed_by"
VERSION_KEY == "version"
DEFAULT_CATALOG == "hive"

\* the adapter's configuration: root, and the USER of the process
HiveRoot == "/wh"
EnvUser == "user"

\* identifiers handed to the Hive3 adapter
HiveCats == {"hive", "c2"}
HiveDbSegs == {"d1", "D1", "default"}
HiveTblSegs == {"t1", "t2"}
HiveNsIds ==
  {<<>>} \cup {<<c>> : c \in HiveCats} \cup (HiveCats \X HiveDbSegs)
  \cup {<<"hive", "d1", "x">>}
HiveTableIds ==
  {<<>>} \cup {<<t>> : t \in HiveTblSegs} \cup ({"d1", "D1"} \X HiveTblSegs)
  \cup (HiveCats \X HiveDbSegs \X HiveTblSegs) \cup {<<"hive", "d1", "t1", "x">>}
NsPropsChoices == {EmptyDict, [comment |-> "c"]}
TblPropsChoices == {EmptyDict, [table_type |-> "iceberg"]}
Modes == {None, "CREATE", "exist_ok", "OVERWRITE", "bogus"}
\* request.location values: the second one holds no Lance dataset
ReqLocations == {<<"/data/a">>, <<"/data/none">>}
HasDataset(loc) == loc = <<"/data/a">>

\* what another writer of the same metastore stores: foreign tables, tables
\* without parameters, and a Lance table written with another letter case
ForeignParams == {EmptyDict, [table_type |-> "iceberg"], [table_type |-> "LANCE"]}
ForeignLocations == {<<"/wh/f">>, NoLocation}
\* the table without a location is one of the Lance tables
ForeignLocationsOf(parameters) ==
  IF DictGet(parameters, "table_type", "") = "LANCE" THEN ForeignLocations
  ELSE {<<"/wh/f">>}

\* the metastore normalises database and table names to lower case
HmsDbExists(db) == \E d \in hiveDbs : d.name = Lower(db)
HmsTablesOf(db) == {t.tableName : t \in {x \in hiveTables : x.dbName = Lower(db)}}
HmsHasTable(db, tbl) ==
  \E t \in hiveTables : t.dbName = Lower(db) /\ t.tableName = Lower(tbl)
HmsTable(db, tbl) ==
  CHOOSE t \in hiveTables : t.dbName = Lower(db) /\ t.tableName = Lower(tbl)
HmsDatabase(db) == CHOOSE d \in hiveDbs : d.name = Lower(db)
\* the catalogs of the metastore: its default one and one made by another
\* tool; the adapter has no call that creates or drops a catalog
HmsCatalogs == {DEFAULT_CATALOG, "spark"}

\* Hive3MetastoreClient used as a context manager: the client exists and
\* its transport is closed again when the block is left
ClientAfterWith == [created |-> TRUE, open |-> FALSE]

\* a root test that takes no identifier for the root
_is_root_namespace_Never(id) == FALSE
_is_root_namespace(id) == Len(id) = 0

\* an identifier resolution that pads a two-segment identifier on the wrong side
_normalize_identifier_PadRight(id) ==
  IF Len(id) = 1 THEN <<DEFAULT_CATALOG, "default", id[1]>>
  ELSE IF Len(id) = 2 THEN <<id[1], id[2], "default">>
  ELSE IF Len(id) = 3 THEN <<id[1], id[2], id[3]>>
  ELSE <<>>

\* the (catalog, database, table) of an identifier; <<>> when it raises
_normalize_identifier(id) ==
  IF Len(id) = 1 THEN <<DEFAULT_CATALOG, "default", id[1]>>
  ELSE IF Len(id) = 2 THEN <<DEFAULT_CATALOG, id[1], id[2]>>
  ELSE IF Len(id) = 3 THEN <<id[1], id[2], id[3]>>
  ELSE <<>>

\* the HiveDatabase object create_namespace builds
HiveDatabaseOf(database_name, props) ==
  [name |-> database_name,
   description |-> DictGet(props, "comment", ""),
   ownerName |-> DictGet(props, "owner", EnvUser),
   locationUri |-> DictGet(props, "location", <<HiveRoot, database_name>>),
   parameters |-> [k \in (DOMAIN props) \ {"comment", "owner", "location"} |-> props[k]]]

\* the objects of the metastore once a database is dropped with its tables
DbsWithout(db) == {d \in hiveDbs : d.name # Lower(db)}
TablesWithout(db) == {t \in hiveTables : t.dbName # Lower(db)}

\* the faults of create_namespace: of its first create_database and, in
\* overwrite mode, of the drop_database and of the second create_database
CreateNamespaceFaults(mode) ==
  IF mode # None /\ Lower(mode) = "overwrite" THEN 0..3 ELSE 0..1

HiveCreateNamespace(id, mode, props, fault) ==
  LET m == IF mode # None THEN Lower(mode) ELSE "create"
      database_name == Lower(id[2])
      database == HiveDatabaseOf(database_name, props)
      c1 == <<[fn |-> "create_database", db |-> database_name]>>
      c2 == c1 \o <<[fn |-> "drop_database", db |-> database_name,
                      deleteData |-> TRUE, cascade |-> TRUE]>>
      c3 == c2 \o <<[fn |-> "create_database", db |-> database_name]>>
      op == [name |-> "create_namespace", mode |-> mode, props |-> props, fault |-> fault]
  IN
  /\ res = NoRes
  /\ adapter = "hive3"
  /\ IF _is_root_namespace(id) THEN
       /\ res' = Raised(op, id, "ValueError", "Root namespace already exists", <<>>)
       /\ UNCHANGED hiveVars
     ELSE IF Len(id) = 1 THEN
       /\ res' = Returned(op, id, <<>>)
       /\ UNCHANGED hiveVars
     ELSE IF Len(id) = 2 THEN
       /\ hiveClient' = ClientAfterWith
       /\ IF fault = 1 THEN
            /\ res' = Raised(op, id, "MetaException", "", c1)
            /\ UNCHANGED <<hiveDbs, hiveTables>>
          ELSE IF ~HmsDbExists(database_name) THEN
            /\ hiveDbs' = hiveDbs \cup {database}
            /\ res' = Returned(op, id, c1)
            /\ UNCHANGED hiveTables
          ELSE IF m = "create" THEN
            /\ res' = Raised(op, id, "ValueError", "already exists", c1)
            /\ UNCHANGED <<hiveDbs, hiveTables>>
          ELSE IF m \in {"exist_ok", "existok"} THEN
            /\ res' = Returned(op, id, c1)
            /\ UNCHANGED <<hiveDbs, hiveTables>>
          ELSE IF m = "overwrite" THEN
            IF fault = 2 \/ database_name = "default" THEN
              \* the metastore refuses to drop its default database
              /\ res' = Raised(op, id, "MetaException", "", c2)
              /\ UNCHANGED <<hiveDbs, hiveTables>>
            ELSE IF fault = 3 THEN
              /\ hiveDbs' = DbsWithout(database_name)
              /\ hiveTables' = TablesWithout(database_name)
              /\ res' = Raised(op, id, "MetaException", "", c3)
            ELSE
              /\ hiveDbs' = DbsWithout(database_name) \cup {database}
              /\ hiveTables' = TablesWithout(database_name)
              /\ res' = Returned(op, id, c3)
          ELSE
            \* any other mode: the AlreadyExistsException is swallowed
            /\ res' = Returned(op, id, c1)
            /\ UNCHANGED <<hiveDbs, hiveTables>>
     ELSE
       /\ res' = Raised(op, id, "ValueError", "Invalid namespace identifier", <<>>)
       /\ UNCHANGED hiveVars
  /\ UNCHANGED <<adapter, codec, conc, inst, iceVars, gravVars>>

HiveDropNamespace(id, fault) ==
  LET database_name == Lower(id[2])
      c1 == <<[fn |-> "get_all_tables", db |-> database_name]>>
      c2 == c1 \o <<[fn |-> "drop_database", db |-> database_name,
                      deleteData |-> TRUE, cascade |-> FALSE]>>
      op == [name |-> "drop_namespace", fault |-> fault]
  IN
  /\ res = NoRes
  /\ adapter = "hive3"
  /\ IF _is_root_namespace(id) THEN
       /\ res' = Raised(op, id, "ValueError", "Cannot drop root namespace", <<>>)
       /\ UNCHANGED hiveVars
     ELSE IF Len(id) = 1 THEN
       /\ res' = Returned(op, id, <<>>)
       /\ UNCHANGED hiveVars
     ELSE IF Len(id) = 2 THEN
       /\ hiveClient' = ClientAfterWith
       /\ UNCHANGED hiveTables
       /\ IF fault = 1 THEN
            /\ res' = Raised(op, id, "MetaException", "", c1)
            /\ UNCHANGED hiveDbs
          ELSE IF HmsTablesOf(database_name) # {} THEN
            /\ res' = Raised(op, id, "ValueError", "is not empty", c1)
            /\ UNCHANGED hiveDbs
          ELSE IF fault = 2 \/ database_name = "default" THEN
            /\ res' = Raised(op, id, "MetaException", "", c2)
            /\ UNCHANGED hiveDbs
          ELSE IF ~HmsDbExists(database_name) THEN
            \* NoSuchObjectException, translated by the outer handler
            /\ res' = Raised(op, id, "ValueError", "does not exist", c2)
            /\ UNCHANGED hiveDbs
          ELSE
            /\ hiveDbs' = DbsWithout(database_name)
            /\ res' = Returned(op, id, c2)
     ELSE
       /\ res' = Raised(op, id, "ValueError", "Invalid namespace identifier", <<>>)
       /\ UNCHANGED hiveVars
  /\ UNCHANGED <<adapter, codec, conc, inst, iceVars, gravVars>>

\* the attributes Hive3Namespace.__init__ sets on the instance
HiveNamespaceAttrs ==
  {"uri", "ugi", "root", "pool_size", "storage_properties", "_properties", "_client"}

\* a Lance-ness test that compares table_type without folding its case
HiveIsLance_CaseSensitive(parameters) ==
  /\ Truthy(parameters)
  /\ DictGet(parameters, TABLE_TYPE_KEY, "") = LANCE_TABLE_FORMAT

\* the Lance-ness test of a metastore table's parameters
HiveIsLance(parameters) ==
  /\ Truthy(parameters)
  /\ Lower(DictGet(parameters, TABLE_TYPE_KEY, "")) = LANCE_TABLE_FORMAT

\* a deregister_table that asks the metastore to delete the data as well
DeregisterDeleteData_True == TRUE

\* deleteData of the drop_table call deregister_table issues
DeregisterDeleteData == FALSE

HiveListTables(id, fault) ==
  LET database_name == Lower(id[2])
      c1 == <<[fn |-> "get_all_tables", db |-> database_name]>>
      op == [name |-> "list_tables", fault |-> fault]
  IN
  /\ res = NoRes
  /\ adapter = "hive3"
  /\ IF _is_root_namespace(id) \/ Len(id) < 2 THEN
       /\ res' = Returned(op, id, <<>>)
       /\ UNCHANGED hiveVars
     ELSE
       /\ hiveClient' = ClientAfterWith
       /\ UNCHANGED <<hiveDbs, hiveTables>>
       /\ IF fault = 1 THEN
            res' = Raised(op, id, "MetaException", "", c1)
          ELSE
            \* table_names in the order the metastore reports them; a
            \* get_table that raises makes the loop skip that table
            \E table_names \in Perms(HmsTablesOf(database_name)),
               failing \in SUBSET HmsTablesOf(database_name) :
              LET lookups == [i \in DOMAIN table_names |->
                                [fn |-> "get_table", db |-> database_name,
                                 tbl |-> table_names[i]]]
                  keep(t) == /\ t \notin failing
                             /\ HiveIsLance(HmsTable(database_name, t).parameters)
              IN res' = [Returned(op, id, c1 \o lookups) EXCEPT
                           !.names = SelectSeq(table_names, keep),
                           !.lookupsFailed = (failing # {})]
  /\ UNCHANGED <<adapter, codec, conc, inst, iceVars, gravVars>>

\* a filter that keeps every database
ExcludeDefault_KeepAll(databases) == databases

\* [db for db in databases if db != "default"]
ExcludeDefault(databases) == SelectSeq(databases, LAMBDA db : db # "default")

HiveListNamespaces(id, fault) ==
  LET c1 == <<[fn |-> "get_catalogs"]>>
      c2 == <<[fn |-> "get_all_databases"]>>
      op == [name |-> "list_namespaces", fault |-> fault]
  IN
  /\ res = NoRes
  /\ adapter = "hive3"
  /\ IF _is_root_namespace(id) THEN
       /\ hiveClient' = ClientAfterWith
       /\ UNCHANGED <<hiveDbs, hiveTables>>
       /\ IF fault = 1 THEN
            \* except Exception: catalogs = [DEFAULT_CATALOG]
            res' = [Returned(op, id, c1) EXCEPT !.names = <<DEFAULT_CATALOG>>]
          ELSE
            \E catalogs \in Perms(HmsCatalogs) :
              res' = [Returned(op, id, c1) EXCEPT !.names = catalogs]
     ELSE IF Len(id) = 1 THEN
       /\ hiveClient' = ClientAfterWith
       /\ UNCHANGED <<hiveDbs, hiveTables>>
       /\ IF fault = 1 THEN
            \* except Exception: databases = []
            res' = Returned(op, id, c2)
          ELSE
            \E databases \in Perms({d.name : d \in hiveDbs}) :
              res' = [Returned(op, id, <<[fn |-> "get_all_databases", reply |-> databases]>>)
                        EXCEPT !.names = ExcludeDefault(databases)]
     ELSE
       /\ res' = Returned(op, id, <<>>)
       /\ UNCHANGED hiveVars
  /\ UNCHANGED <<adapter, codec, conc, inst, iceVars, gravVars>>

\* the properties describe_namespace reports for a database object
HiveDatabaseProperties(database) ==
  LET comment == IF database.description # "" THEN [comment |-> database.description]
                 ELSE EmptyDict
      owner == IF database.ownerName # "" THEN [owner |-> database.ownerName]
               ELSE EmptyDict
      location == IF database.locationUri # NoLocation
                  THEN [location |-> database.locationUri] ELSE EmptyDict
  IN DictUpdate(DictUpdate(DictUpdate(comment, owner), location), database.parameters)

\* self.ugi is not configured
HiveDescribeNamespace(id, fault) ==
  LET catalog_name == Lower(id[1])
      database_name == Lower(id[2])
      c1 == <<[fn |-> "get_database", db |-> database_name]>>
      op == [name |-> "describe_namespace", fault |-> fault]
  IN
  /\ res = NoRes
  /\ adapter = "hive3"
  /\ IF _is_root_namespace(id) THEN
       /\ res' = [Returned(op, id, <<>>) EXCEPT
                    !.properties = [location |-> <<HiveRoot>>,
                                    description |-> "Root namespace (Hive 3.x Metastore)"]]
       /\ UNCHANGED hiveVars
     ELSE IF Len(id) = 1 THEN
       /\ res' = [Returned(op, id, <<>>) EXCEPT
                    !.properties = [k \in {"description", "catalog.location.uri"} |->
                                      IF k = "description"
                                      THEN <<"Catalog: ", catalog_name>>
                                      ELSE <<HiveRoot, catalog_name>>]]
       /\ UNCHANGED hiveVars
     ELSE IF Len(id) = 2 THEN
       /\ hiveClient' = ClientAfterWith
       /\ UNCHANGED <<hiveDbs, hiveTables>>
       /\ IF fault = 1 THEN
            res' = Raised(op, id, "MetaException", "", c1)
          ELSE IF ~HmsDbExists(database_name) THEN
            \* NoSuchObjectException
            res' = Raised(op, id, "ValueError", "does not exist", c1)
          ELSE
            res' = [Returned(op, id, c1) EXCEPT
                      !.properties = HiveDatabaseProperties(HmsDatabase(database_name))]
     ELSE
       /\ res' = Raised(op, id, "ValueError", "Invalid namespace identifier", <<>>)
       /\ UNCHANGED hiveVars
  /\ UNCHANGED <<adapter, codec, conc, inst, iceVars, gravVars>>

HiveNamespaceExists(id, fault) ==
  LET database_name == Lower(id[2])
      c1 == <<[fn |-> "get_database", db |-> database_name]>>
      op == [name |-> "namespace_exists", fault |-> fault]
  IN
  /\ res = NoRes
  /\ adapter = "hive3"
  /\ IF _is_root_namespace(id) THEN
       /\ res' = Returned(op, id, <<>>)
       /\ UNCHANGED hiveVars
     ELSE IF Len(id) = 1 THEN
       \* "For simplicity, assume standard catalogs exist"
       /\ res' = Returned(op, id, <<>>)
       /\ UNCHANGED hiveVars
     ELSE IF Len(id) = 2 THEN
       /\ hiveClient' = ClientAfterWith
       /\ UNCHANGED <<hiveDbs, hiveTables>>
       /\ IF fault = 1 THEN
            res' = Raised(op, id, "MetaException", "", c1)
          ELSE IF ~HmsDbExists(database_name) THEN
            \* NoSuchObjectException
            res' = Raised(op, id, "ValueError", "does not exist", c1)
          ELSE
            res' = Returned(op, id, c1)
     ELSE
       /\ res' = Raised(op, id, "ValueError", "Invalid namespace identifier", <<>>)
       /\ UNCHANGED hiveVars
  /\ UNCHANGED <<adapter, codec, conc, inst, iceVars, gravVars>>

\* request.load_detailed_metadata (ldm) is never read
HiveDescribeTable(id, ldm, fault) ==
  LET nid == _normalize_identifier(id)
      database == nid[2]
      table_name == nid[3]
      c1 == <<[fn |-> "get_table", db |-> database, tbl |-> table_name]>>
      table == HmsTable(database, table_name)
      op == [name |-> "describe_table", ldm |-> ldm, fault |-> fault]
  IN
  /\ res = NoRes
  /\ adapter = "hive3"
  /\ IF nid = <<>> THEN
       /\ res' = Raised(op, id, "ValueError", "Invalid identifier", <<>>)
       /\ UNCHANGED hiveVars
     ELSE
       /\ hiveClient' = ClientAfterWith
       /\ UNCHANGED <<hiveDbs, hiveTables>>
       /\ IF fault = 1 THEN
            res' = Raised(op, id, "MetaException", "", c1)
          ELSE IF ~HmsHasTable(database, table_name) THEN
            res' = Raised(op, id, "ValueError", "does not exist", c1)
          ELSE IF ~HiveIsLance(table.parameters) THEN
            res' = Raised(op, id, "ValueError", "is not a Lance table", c1)
          ELSE IF table.location = NoLocation THEN
            res' = Raised(op, id, "ValueError", "has no location", c1)
          ELSE IF "config" \notin HiveNamespaceAttrs THEN
            \* storage_options=self.config.storage_options
            res' = Raised(op, id, "AttributeError", "config", c1)
          ELSE
            res' = [Returned(op, id, c1) EXCEPT !.location = table.location]
  /\ UNCHANGED <<adapter, codec, conc, inst, iceVars, gravVars>>

HiveTableExists(id, fault) ==
  LET nid == _normalize_identifier(id)
      database == nid[2]
      table_name == nid[3]
      c1 == <<[fn |-> "get_table", db |-> database, tbl |-> table_name]>>
      table == HmsTable(database, table_name)
      op == [name |-> "table_exists", fault |-> fault]
  IN
  /\ res = NoRes
  /\ adapter = "hive3"
  /\ IF nid = <<>> THEN
       /\ res' = Raised(op, id, "ValueError", "Invalid identifier", <<>>)
       /\ UNCHANGED hiveVars
     ELSE
       /\ hiveClient' = ClientAfterWith
       /\ UNCHANGED <<hiveDbs, hiveTables>>
       /\ IF fault = 1 THEN
            res' = Raised(op, id, "MetaException", "", c1)
          ELSE IF ~HmsHasTable(database, table_name) THEN
            res' = Raised(op, id, "ValueError", "does not exist", c1)
          ELSE IF ~HiveIsLance(table.parameters) THEN
            res' = Raised(op, id, "ValueError", "is not a Lance table", c1)
          ELSE
            res' = Returned(op, id, c1)
  /\ UNCHANGED <<adapter, codec, conc, inst, iceVars, gravVars>>

\* the parameters register_table stores
RegisterParameters(props) ==
  LET managed_by == DictGet(props, MANAGED_BY_KEY, "storage")
      version == DictGet(props, VERSION_KEY, "1")
      base == IF managed_by = "impl"
              THEN [table_type |-> LANCE_TABLE_FORMAT, managed_by |-> managed_by,
                    version |-> version]
              ELSE [table_type |-> LANCE_TABLE_FORMAT, managed_by |-> managed_by]
      others == [k \in (DOMAIN props) \ {TABLE_TYPE_KEY, MANAGED_BY_KEY, VERSION_KEY}
                   |-> props[k]]
  IN DictUpdate(base, others)

\* what the metastore does with create_table: "ok" or the exception it raises
HmsCreateTableOutcome(database, table_name) ==
  IF ~HmsDbExists(database) THEN "InvalidObjectException"
  ELSE IF HmsHasTable(database, table_name) THEN "AlreadyExistsException"
  ELSE "ok"

\* a metastore that stores the names of a table as they are given
HmsTableObject_KeepCase(database, table_name, parameters, location) ==
  [dbName |-> database, tableName |-> table_name,
   parameters |-> parameters, location |-> location]

\* the table the metastore stores: it folds database and table name to lower
\* case
HmsTableObject(database, table_name, parameters, location) ==
  [dbName |-> Lower(database), tableName |-> Lower(table_name),
   parameters |-> parameters, location |-> location]

HiveRegisterTable(id, location, props, fault) ==
  LET nid == _normalize_identifier(id)
      database == nid[2]
      table_name == nid[3]
      c1 == <<[fn |-> "create_table", db |-> database, tbl |-> table_name]>>
      outcome == HmsCreateTableOutcome(database, table_name)
      op == [name |-> "register_table", location |-> location, props |-> props, fault |-> fault]
  IN
  /\ res = NoRes
  /\ adapter = "hive3"
  /\ IF nid = <<>> THEN
       /\ res' = Raised(op, id, "ValueError", "Invalid identifier", <<>>)
       /\ UNCHANGED hiveVars
     ELSE IF ~HasDataset(location) THEN
       \* lance.dataset(request.location) raises
       /\ res' = Raised(op, id, "ValueError", "dataset not found", <<>>)
       /\ UNCHANGED hiveVars
     ELSE
       /\ hiveClient' = ClientAfterWith
       /\ UNCHANGED hiveDbs
       /\ IF fault = 1 THEN
            /\ res' = Raised(op, id, "MetaException", "", c1)
            /\ UNCHANGED hiveTables
          ELSE IF outcome = "AlreadyExistsException" THEN
            /\ res' = Raised(op, id, "ValueError", "already exists", c1)
            /\ UNCHANGED hiveTables
          ELSE IF outcome # "ok" THEN
            /\ res' = Raised(op, id, outcome, "", c1)
            /\ UNCHANGED hiveTables
          ELSE
            /\ Cardinality(hiveTables) < MaxTables
            /\ hiveTables' = hiveTables \cup
                 {HmsTableObject(database, table_name, RegisterParameters(props), location)}
            /\ res' = [Returned(op, id, c1) EXCEPT !.location = location]
  /\ UNCHANGED <<adapter, codec, conc, inst, iceVars, gravVars>>

\* os.path.join(self.root, database, f"{table}.lance")
_get_table_location(catalog, database, table) == <<HiveRoot, database, table, ".lance">>

\* the parameters create_empty_table stores
EmptyTableParameters(props) ==
  DictUpdate([table_type |-> LANCE_TABLE_FORMAT, managed_by |-> "storage",
              empty_table |-> "true"], props)

HiveCreateEmptyTable(id, location, props, fault) ==
  LET nid == _normalize_identifier(id)
      catalog == nid[1]
      database == nid[2]
      table_name == nid[3]
      loc == IF location # NoLocation THEN location
             ELSE _get_table_location(catalog, database, table_name)
      c1 == <<[fn |-> "create_table", db |-> database, tbl |-> table_name]>>
      outcome == HmsCreateTableOutcome(database, table_name)
      op == [name |-> "create_empty_table", location |-> location, props |-> props,
             fault |-> fault]
  IN
  /\ res = NoRes
  /\ adapter = "hive3"
  /\ IF nid = <<>> THEN
       /\ res' = Raised(op, id, "ValueError", "Invalid identifier", <<>>)
       /\ UNCHANGED hiveVars
     ELSE
       /\ hiveClient' = ClientAfterWith
       /\ UNCHANGED hiveDbs
       /\ IF fault = 1 THEN
            /\ res' = Raised(op, id, "MetaException", "", c1)
            /\ UNCHANGED hiveTables
          ELSE IF outcome = "AlreadyExistsException" THEN
            /\ res' = Raised(op, id, "ValueError", "already exists", c1)
            /\ UNCHANGED hiveTables
          ELSE IF outcome # "ok" THEN
            /\ res' = Raised(op, id, outcome, "", c1)
            /\ UNCHANGED hiveTables
          ELSE
            /\ Cardinality(hiveTables) < MaxTables
            /\ hiveTables' = hiveTables \cup
                 {HmsTableObject(database, table_name, EmptyTableParameters(props), loc)}
            /\ res' = [Returned(op, id, c1) EXCEPT !.location = loc]
  /\ UNCHANGED <<adapter, codec, conc, inst, iceVars, gravVars>>

HiveDeregisterTable(id, fault) ==
  LET nid == _normalize_identifier(id)
      database == nid[2]
      table_name == nid[3]
      c1 == <<[fn |-> "get_table", db |-> database, tbl |-> table_name]>>
      c2 == c1 \o <<[fn |-> "drop_table", db |-> database, tbl |-> table_name,
                      deleteData |-> DeregisterDeleteData]>>
      table == HmsTable(database, table_name)
      op == [name |-> "deregister_table", fault |-> fault]
  IN
  /\ res = NoRes
  /\ adapter = "hive3"
  /\ IF nid = <<>> THEN
       /\ res' = Raised(op, id, "ValueError", "Invalid identifier", <<>>)
       /\ UNCHANGED hiveVars
     ELSE
       /\ hiveClient' = ClientAfterWith
       /\ UNCHANGED hiveDbs
       /\ IF fault = 1 THEN
            /\ res' = Raised(op, id, "MetaException", "", c1)
            /\ UNCHANGED hiveTables
          ELSE IF ~HmsHasTable(database, table_name) THEN
            /\ res' = Raised(op, id, "ValueError", "does not exist", c1)
            /\ UNCHANGED hiveTables
          ELSE IF ~HiveIsLance(table.parameters) THEN
            /\ res' = Raised(op, id, "ValueError", "is not a Lance table", c1)
            /\ UNCHANGED hiveTables
          ELSE IF fault = 2 THEN
            /\ res' = Raised(op, id, "MetaException", "", c2)
            /\ UNCHANGED hiveTables
          ELSE
            /\ hiveTables' = hiveTables \ {table}
            /\ res' = [Returned(op, id, c2) EXCEPT !.location = table.location]
  /\ UNCHANGED <<adapter, codec, conc, inst, iceVars, gravVars>>

\* another writer of the metastore creates a table of its own; the result of
\* the adapter's previous call is forgotten
HmsForeignCreate(db, tbl, parameters, location) ==
  /\ res = NoRes
  /\ adapter = "hive3"
  /\ HmsCreateTableOutcome(db, tbl) = "ok"
  /\ Cardinality(hiveTables) < MaxTables
  /\ hiveTables' = hiveTables \cup {HmsTableObject(db, tbl, parameters, location)}
  /\ res' = NoRes
  /\ UNCHANGED <<adapter, codec, conc, inst, hiveDbs, hiveClient, iceVars, gravVars>>

\* ------------------------------------------------------------ Iceberg
IceRoot == "/tmp/lance"
IceNsIds == {<<>>, <<"n1">>, <<"n1", "n2">>}
IceTblNames == {"t1", "t2"}
IceTableIds == {<<>>, <<"t1">>} \cup {ns \o <<t>> : ns \in IceNsIds \ {<<>>}, t \in IceTblNames}
IceForeignProps == {EmptyDict, [table_type |-> "LANCE"]}

IceNsExists(ns) == \E n \in iceNs : n.id = ns
IceTablesOf(ns) == {t.name : t \in {x \in iceTables : x.ns = ns}}
IceHasTable(ns, name) == \E t \in iceTables : t.ns = ns /\ t.name = name
IceTable(ns, name) == CHOOSE t \in iceTables : t.ns = ns /\ t.name = name
IceChildren(ns) ==
  {n.id : n \in {x \in iceNs : Len(x.id) = Len(ns) + 1 /\ SubSeq(x.id, 1, Len(ns)) = ns}}

\* exceptions: e.cls is the class, e.status the HTTP status it carries
Exc(cls, status) == [cls |-> cls, status |-> status]
NoExc == Exc("none", 0)

\* a Lance-ness test that takes a missing table_type for "lance"
IceIsLance_DefaultLance(props) ==
  Lower(DictGet(props, TABLE_TYPE_KEY, LANCE_TABLE_FORMAT)) = Lower(LANCE_TABLE_FORMAT)

\* the Lance-ness test of an Iceberg table's properties
IceIsLance(props) ==
  Lower(DictGet(props, TABLE_TYPE_KEY, "")) = Lower(LANCE_TABLE_FORMAT)

\* what the catalog answers to GET .../tables/{name}: the exception raised
IceLoadTable(ns, name, failed) ==
  IF failed THEN Exc("RestClientException", 500)
  ELSE IF ~IceHasTable(ns, name) THEN Exc("RestClientException", 404)
  ELSE NoExc

\* _is_lance_table: every exception is swallowed and answers False
_is_lance_table(ns, name, failed) ==
  /\ IceLoadTable(ns, name, failed) = NoExc
  /\ IceIsLance(IceTable(ns, name).properties)

\* the handlers of describe_table's try block: the exception that leaves it
IceDescribeTableHandlers(e) ==
  IF e.cls = "RestClientException" THEN
    IF e.status = 404 THEN Exc("LanceNamespaceException", 404)
    ELSE Exc("LanceNamespaceException", 500)
  ELSE IF e.cls = "LanceNamespaceException" THEN e
  ELSE Exc("LanceNamespaceException", 500)

IceRaised(op, id, inner, e, calls) ==
  [Raised(op, id, e.cls, "", calls) EXCEPT !.status = e.status, !.inner = inner]

\* the handlers of the other try blocks of the Iceberg adapter
IceListTablesHandlers(e) ==
  IF e.cls = "LanceNamespaceException" THEN e
  ELSE Exc("LanceNamespaceException", 500)

IceCreateNamespaceHandlers(e) ==
  IF e.cls = "RestClientException" THEN
    IF e.status = 409 THEN Exc("LanceNamespaceException", 409)
    ELSE Exc("LanceNamespaceException", 500)
  ELSE Exc("LanceNamespaceException", 500)

IceDropNamespaceHandlers(e) ==
  IF e.cls = "RestClientException" THEN
    IF e.status = 404 THEN NoExc
    ELSE IF e.status = 409 THEN Exc("LanceNamespaceException", 409)
    ELSE Exc("LanceNamespaceException", 500)
  ELSE Exc("LanceNamespaceException", 500)

IceCreateEmptyTableHandlers(e) ==
  IF e.cls = "RestClientException" THEN
    IF e.status = 409 THEN Exc("LanceNamespaceException", 409)
    ELSE IF e.status = 404 THEN Exc("LanceNamespaceException", 404)
    ELSE Exc("LanceNamespaceException", 500)
  ELSE Exc("LanceNamespaceException", 500)

IceDropTableHandlers(e) ==
  IF e.cls = "LanceNamespaceException" THEN e
  ELSE Exc("LanceNamespaceException", 500)

IceListTables(id, fault) ==
  LET c1 == <<[fn |-> "GET", path |-> "tables", ns |-> id]>>
      op == [name |-> "list_tables", fault |-> fault]
      e == IF fault = 1 THEN Exc("RestClientException", 500)
           ELSE IF ~IceNsExists(id) THEN Exc("RestClientException", 404)
           ELSE NoExc
  IN
  /\ res = NoRes
  /\ adapter = "iceberg"
  /\ UNCHANGED <<adapter, codec, conc, inst, hiveVars, iceVars, gravVars>>
  /\ IF id = <<>> THEN
       res' = Raised(op, id, "ValueError", "at least one level", <<>>)
     ELSE IF e # NoExc THEN
       res' = IceRaised(op, id, e, IceListTablesHandlers(e), c1)
     ELSE
       \E identifiers \in Perms(IceTablesOf(id)), failing \in SUBSET IceTablesOf(id) :
         LET lookups == [i \in DOMAIN identifiers |->
                           [fn |-> "GET", path |-> "table", ns |-> id,
                            name |-> identifiers[i]]]
             keep(t) == _is_lance_table(id, t, t \in failing)
         IN res' = [Returned(op, id, c1 \o lookups) EXCEPT
                      !.names = SortedSet(SelectSeq(identifiers, keep)),
                      !.lookupsFailed = (failing # {})]

IceListNamespacesHandlers(e) ==
  IF e.cls = "LanceNamespaceException" THEN e
  ELSE Exc("LanceNamespaceException", 500)

IceDescribeNamespaceHandlers(e) ==
  IF e.cls = "RestClientException" THEN
    IF e.status = 404 THEN Exc("LanceNamespaceException", 404)
    ELSE Exc("LanceNamespaceException", 500)
  ELSE Exc("LanceNamespaceException", 500)

IceListNamespaces(id, fault) ==
  LET c1 == <<[fn |-> "GET", path |-> "namespaces", parent |-> id]>>
      op == [name |-> "list_namespaces", fault |-> fault]
      e == IF fault = 1 THEN Exc("RestClientException", 500)
           ELSE IF id # <<>> /\ ~IceNsExists(id) THEN Exc("RestClientException", 404)
           ELSE NoExc
  IN
  /\ res = NoRes
  /\ adapter = "iceberg"
  /\ UNCHANGED <<adapter, codec, conc, inst, hiveVars, iceVars, gravVars>>
  /\ IF e # NoExc THEN
       res' = IceRaised(op, id, e, IceListNamespacesHandlers(e), c1)
     ELSE
       \E response \in Perms(IceChildren(id)) :
         \* namespaces.append(ns[-1])
         LET namespaces == [i \in DOMAIN response |-> response[i][Len(response[i])]]
         IN res' = [Returned(op, id, c1) EXCEPT !.names = SortedSet(namespaces)]

IceDescribeNamespaceAs(opname, id, fault) ==
  LET c1 == <<[fn |-> "GET", path |-> "namespace", ns |-> id]>>
      op == [name |-> opname, fault |-> fault]
      e == IF fault = 1 THEN Exc("RestClientException", 500)
           ELSE IF ~IceNsExists(id) THEN Exc("RestClientException", 404)
           ELSE NoExc
  IN
  /\ res = NoRes
  /\ adapter = "iceberg"
  /\ UNCHANGED <<adapter, codec, conc, inst, hiveVars, iceVars, gravVars>>
  /\ IF id = <<>> THEN
       res' = Raised(op, id, "ValueError", "at least one level", <<>>)
     ELSE IF e # NoExc THEN
       res' = IceRaised(op, id, e, IceDescribeNamespaceHandlers(e), c1)
     ELSE
       \* namespace_exists discards the response of describe_namespace
       res' = [Returned(op, id, c1) EXCEPT
                 !.properties = IF opname = "describe_namespace"
                                THEN (CHOOSE n \in iceNs : n.id = id).properties
                                ELSE EmptyDict]

IceDescribeNamespace(id, fault) == IceDescribeNamespaceAs("describe_namespace", id, fault)

\* namespace_exists delegates to describe_namespace
IceNamespaceExists(id, fault) == IceDescribeNamespaceAs("namespace_exists", id, fault)

\* request.load_detailed_metadata (ldm) is never read
IceDescribeTableAs(opname, id, ldm, fault, nometa) ==
  LET op == [name |-> opname, ldm |-> ldm, fault |-> fault, nometa |-> nometa]
      namespace == SubSeq(id, 1, Len(id) - 1)
      table_name == id[Len(id)]
      c1 == <<[fn |-> "GET", path |-> "table", ns |-> namespace, name |-> table_name]>>
      got == IceLoadTable(namespace, table_name, fault = 1)
      \* the exception raised inside the try block, if any
      e == IF got # NoExc THEN got
           ELSE IF nometa THEN Exc("LanceNamespaceException", 404)
           ELSE IF ~IceIsLance(IceTable(namespace, table_name).properties)
             THEN Exc("LanceNamespaceException", 400)
           ELSE NoExc
  IN
  /\ res = NoRes
  /\ adapter = "iceberg"
  /\ UNCHANGED <<adapter, codec, conc, inst, hiveVars, iceVars, gravVars>>
  /\ IF Len(id) < 2 THEN
       res' = Raised(op, id, "ValueError", "namespace and table name", <<>>)
     ELSE IF e # NoExc THEN
       res' = IceRaised(op, id, e, IceDescribeTableHandlers(e), c1)
     ELSE
       \* table_exists discards the response of describe_table
       res' = [Returned(op, id, c1) EXCEPT
                 !.location = IF opname = "describe_table"
                              THEN IceTable(namespace, table_name).location
                              ELSE NoLocation]

IceDescribeTable(id, ldm, fault, nometa) ==
  IceDescribeTableAs("describe_table", id, ldm, fault, nometa)

\* table_exists delegates to describe_table with a fresh request, whose
\* load_detailed_metadata is unset
IceTableExists(id, fault, nometa) ==
  IceDescribeTableAs("table_exists", id, FALSE, fault, nometa)

IceCreateNamespace(id, props, fault) ==
  LET c1 == <<[fn |-> "POST", path |-> "namespaces", ns |-> id]>>
      parent == SubSeq(id, 1, Len(id) - 1)
      op == [name |-> "create_namespace", props |-> props, fault |-> fault]
      e == IF fault = 1 THEN Exc("RestClientException", 500)
           ELSE IF parent # <<>> /\ ~IceNsExists(parent) THEN Exc("RestClientException", 404)
           ELSE IF IceNsExists(id) THEN Exc("RestClientException", 409)
           ELSE NoExc
  IN
  /\ res = NoRes
  /\ adapter = "iceberg"
  /\ UNCHANGED <<adapter, codec, conc, inst, hiveVars, iceTables, gravVars>>
  /\ IF id = <<>> THEN
       /\ res' = Raised(op, id, "ValueError", "at least one level", <<>>)
       /\ UNCHANGED iceNs
     ELSE IF e # NoExc THEN
       /\ res' = IceRaised(op, id, e, IceCreateNamespaceHandlers(e), c1)
       /\ UNCHANGED iceNs
     ELSE
       /\ iceNs' = iceNs \cup {[id |-> id, properties |-> props]}
       /\ res' = Returned(op, id, c1)

IceDropNamespace(id, fault) ==
  LET c1 == <<[fn |-> "DELETE", path |-> "namespace", ns |-> id]>>
      op == [name |-> "drop_namespace", fault |-> fault]
      e == IF fault = 1 THEN Exc("RestClientException", 500)
           ELSE IF ~IceNsExists(id) THEN Exc("RestClientException", 404)
           ELSE IF IceTablesOf(id) # {} \/ IceChildren(id) # {}
             THEN Exc("RestClientException", 409)
           ELSE NoExc
      out == IceDropNamespaceHandlers(e)
  IN
  /\ res = NoRes
  /\ adapter = "iceberg"
  /\ UNCHANGED <<adapter, codec, conc, inst, hiveVars, iceTables, gravVars>>
  /\ IF id = <<>> THEN
       /\ res' = Raised(op, id, "ValueError", "at least one level", <<>>)
       /\ UNCHANGED iceNs
     ELSE IF e # NoExc THEN
       /\ res' = IF out = NoExc THEN [Returned(op, id, c1) EXCEPT !.inner = e]
                 ELSE IceRaised(op, id, e, out, c1)
       /\ UNCHANGED iceNs
     ELSE
       /\ iceNs' = {n \in iceNs : n.id # id}
       /\ res' = Returned(op, id, c1)

IceCreateEmptyTable(id, location, props, fault) ==
  LET namespace == SubSeq(id, 1, Len(id) - 1)
      table_name == id[Len(id)]
      table_path == IF location # NoLocation THEN location
                    ELSE <<IceRoot>> \o namespace \o <<table_name>>
      properties == DictUpdate([table_type |-> LANCE_TABLE_FORMAT], props)
      c1 == <<[fn |-> "POST", path |-> "tables", ns |-> namespace, name |-> table_name]>>
      op == [name |-> "create_empty_table", location |-> location, props |-> props,
             fault |-> fault]
      e == IF fault = 1 THEN Exc("RestClientException", 500)
           ELSE IF ~IceNsExists(namespace) THEN Exc("RestClientException", 404)
           ELSE IF IceHasTable(namespace, table_name) THEN Exc("RestClientException", 409)
           ELSE NoExc
  IN
  /\ res = NoRes
  /\ adapter = "iceberg"
  /\ UNCHANGED <<adapter, codec, conc, inst, hiveVars, iceNs, gravVars>>
  /\ IF Len(id) < 2 THEN
       /\ res' = Raised(op, id, "ValueError", "namespace and table name", <<>>)
       /\ UNCHANGED iceTables
     ELSE IF e # NoExc THEN
       /\ res' = IceRaised(op, id, e, IceCreateEmptyTableHandlers(e), c1)
       /\ UNCHANGED iceTables
     ELSE
       /\ Cardinality(iceTables) < MaxTables
       /\ iceTables' = iceTables \cup
            {[ns |-> namespace, name |-> table_name, properties |-> properties,
              location |-> table_path]}
       /\ res' = [Returned(op, id, c1) EXCEPT !.location = table_path]

IceDropTable(id, fault) ==
  LET namespace == SubSeq(id, 1, Len(id) - 1)
      table_name == id[Len(id)]
      c1 == <<[fn |-> "GET", path |-> "table", ns |-> namespace, name |-> table_name]>>
      c2 == c1 \o <<[fn |-> "DELETE", path |-> "table", ns |-> namespace,
                      name |-> table_name, purgeRequested |-> "false"]>>
      got == IceLoadTable(namespace, table_name, fault = 1)
      \* a lookup that fails otherwise than with 404 is ignored
      table_location == IF got = NoExc THEN IceTable(namespace, table_name).location
                        ELSE NoLocation
      \* the exception of the DELETE
      e == IF fault = 2 THEN Exc("RestClientException", 500)
           ELSE IF ~IceHasTable(namespace, table_name) THEN Exc("RestClientException", 404)
           ELSE NoExc
      op == [name |-> "drop_table", fault |-> fault]
  IN
  /\ res = NoRes
  /\ adapter = "iceberg"
  /\ UNCHANGED <<adapter, codec, conc, inst, hiveVars, iceNs, gravVars>>
  /\ IF Len(id) < 2 THEN
       /\ res' = Raised(op, id, "ValueError", "namespace and table name", <<>>)
       /\ UNCHANGED iceTables
     ELSE IF got = Exc("RestClientException", 404) THEN
       /\ res' = [Returned(op, id, c1) EXCEPT !.inner = got]
       /\ UNCHANGED iceTables
     ELSE IF e # NoExc THEN
       /\ res' = IceRaised(op, id, e, IceDropTableHandlers(e), c2)
       /\ UNCHANGED iceTables
     ELSE
       /\ iceTables' = {t \in iceTables : ~(t.ns = namespace /\ t.name = table_name)}
       /\ res' = [Returned(op, id, c2) EXCEPT !.location = table_location]

\* another client of the catalog creates an Iceberg table of its own
IceForeignCreate(ns, name, props) ==
  /\ res = NoRes
  /\ adapter = "iceberg"
  /\ IceNsExists(ns)
  /\ ~IceHasTable(ns, name)
  /\ Cardinality(iceTables) < MaxTables
  /\ iceTables' = iceTables \cup
       {[ns |-> ns, name |-> name, properties |-> props, location |-> <<"/wh/f">>]}
  /\ res' = NoRes
  /\ UNCHANGED <<adapter, codec, conc, inst, hiveVars, iceNs, gravVars>>

\* ------------------------------------------------------------ Gravitino
\* Strings of the Gravitino adapter are sequences of characters.

\* characters urllib.parse.quote never escapes
Unreserved ==
  {"a", "b", "c", "s", "t", "u", "x", "A", "F", "0", "2", "4", "5", ".", "_", "-", "~"}

\* the percent-escape of a character that is not unreserved
PercentOf(ch) ==
  CASE ch = "$" -> <<"%", "2", "4">>
    [] ch = "/" -> <<"%", "2", "F">>
    [] ch = "%" -> <<"%", "2", "5">>
    [] ch = " " -> <<"%", "2", "0">>

\* urllib.parse.quote(part, safe="")
RECURSIVE Quote(_)
Quote(part) ==
  IF part = <<>> THEN <<>>
  ELSE (IF Head(part) \in Unreserved THEN <<Head(part)>> ELSE PercentOf(Head(part)))
       \o Quote(Tail(part))

\* sep.join(parts)
RECURSIVE Join(_, _)
Join(sep, parts) ==
  IF parts = <<>> THEN <<>>
  ELSE IF Len(parts) = 1 THEN parts[1]
  ELSE parts[1] \o sep \o Join(sep, Tail(parts))

\* the delimiter _encode_namespace_path joins the quoted parts with
PathDelimiter == <<"%", "2", "4">>

_encode_namespace_path(namespace_parts) ==
  IF namespace_parts = <<>> THEN <<>>
  ELSE Join(PathDelimiter, [i \in DOMAIN namespace_parts |-> Quote(namespace_parts[i])])

\* table.split("$")[-1]: what follows the last "$" of a string
RECURSIVE LastAfterDollar(_)
LastAfterDollar(str) ==
  IF \A i \in DOMAIN str : str[i] # "$" THEN str
  ELSE LastAfterDollar(Tail(str))

\* the table name list_tables keeps for one entry of the response
ListedTableName(table) ==
  IF \E i \in DOMAIN table : table[i] = "$" THEN LastAfterDollar(table) ELSE table

\* Python's ordering of characters and of strings
CharRank(ch) ==
  CASE ch = " " -> 32 [] ch = "$" -> 36 [] ch = "%" -> 37 [] ch = "." -> 46
    [] ch = "/" -> 47 [] ch = "a" -> 97 [] ch = "b" -> 98 [] ch = "c" -> 99
    [] ch = "s" -> 115 [] ch = "t" -> 116 [] ch = "u" -> 117 [] ch = "x" -> 120
    [] OTHER -> 127

RECURSIVE StrLeq(_, _)
StrLeq(a, b) ==
  IF a = <<>> THEN TRUE
  ELSE IF b = <<>> THEN FALSE
  ELSE IF Head(a) = Head(b) THEN StrLeq(Tail(a), Tail(b))
  ELSE CharRank(Head(a)) < CharRank(Head(b))

\* sorted(set(strings))
RECURSIVE StrSortedOfSet(_)
StrSortedOfSet(S) ==
  IF S = {} THEN <<>>
  ELSE LET m == CHOOSE x \in S : \A y \in S : StrLeq(x, y)
       IN <<m>> \o StrSortedOfSet(S \ {m})

\* no thread is inside an operation of the adapter
ConcOff == [n |-> 0]

\* no Hive3Namespace object is looked at
InstOff == [obj |-> 0]

\* the codec at rest
CodecOff == [stage |-> "off", segs |-> <<>>, path |-> <<>>, listed |-> <<>>]

\* identifiers handed to the Gravitino adapter
GravCat == <<"c">>
GravSchema == <<"s">>
GravTblNames == {<<"t">>, <<"u">>}
GravIds ==
  {<<>>, <<GravCat>>, <<GravCat, GravSchema>>, <<GravCat, GravSchema, <<"t">>, <<"x">>>>}
  \cup {<<GravCat, GravSchema, t>> : t \in GravTblNames}
GravFaults == {0, 400, 500}
\* the shapes in which the service answers an exists request
ExistsShapes == {"empty", "dict_true", "dict_false", "bool_true", "other"}

GravNsExists(id) == \E n \in gravNs : n.id = id
GravChildren(id) ==
  {n.id : n \in {x \in gravNs : Len(x.id) = Len(id) + 1 /\ SubSeq(x.id, 1, Len(id)) = id}}
GravTablesOf(id) == {t.id[3] : t \in {x \in gravTables : SubSeq(x.id, 1, 2) = id}}
GravHasTable(id) == \E t \in gravTables : t.id = id
GravTable(id) == CHOOSE t \in gravTables : t.id = id

\* RestClientException.is_not_found / is_conflict, and the class test of the
\* first handler of every try block
is_not_found(e) == e.status = 404
is_conflict(e) == e.status = 409
IsRestClientException(e) == e.cls = "RestClientException"

\* the exception the service's answer raises in the REST client
HttpError(status) == Exc("RestClientException", status)

RestCall(method, prefix, id, suffix, payload) ==
  [fn |-> method, prefix |-> prefix, path |-> _encode_namespace_path(id),
   suffix |-> suffix, payload |-> payload]

GravRaised(op, id, inner, e, calls) ==
  [Raised(op, id, e.cls, "", calls) EXCEPT !.status = e.status, !.inner = inner]

\* the handlers of each try block: the exception that leaves the method, or
\* NoExc when a handler returns normally
\* handlers of create_namespace without the conflict branch
GravCreateNamespaceHandlers_NoConflict(e) ==
  IF e.cls \in {"NamespaceAlreadyExists", "InvalidInput"} THEN e
  ELSE Exc("Internal", e.status)

GravCreateNamespaceHandlers(e) ==
  IF IsRestClientException(e) THEN
    IF is_conflict(e) THEN Exc("NamespaceAlreadyExists", e.status)
    ELSE Exc("Internal", e.status)
  ELSE IF e.cls \in {"NamespaceAlreadyExists", "InvalidInput"} THEN e
  ELSE Exc("Internal", e.status)

GravDescribeNamespaceHandlers(e) ==
  IF IsRestClientException(e) THEN
    IF is_not_found(e) THEN Exc("NamespaceNotFound", e.status)
    ELSE Exc("Internal", e.status)
  ELSE IF e.cls \in {"NamespaceNotFound", "InvalidInput"} THEN e
  ELSE Exc("Internal", e.status)

GravDropNamespaceHandlers(e) ==
  IF IsRestClientException(e) THEN
    IF is_not_found(e) THEN NoExc
    ELSE Exc("Internal", e.status)
  ELSE IF e.cls \in {"InvalidInput"} THEN e
  ELSE Exc("Internal", e.status)

GravListTablesHandlers(e) ==
  IF IsRestClientException(e) THEN
    IF is_not_found(e) THEN Exc("NamespaceNotFound", e.status)
    ELSE Exc("Internal", e.status)
  ELSE IF e.cls \in {"NamespaceNotFound", "InvalidInput"} THEN e
  ELSE Exc("Internal", e.status)

GravDeclareTableHandlers(e) ==
  IF IsRestClientException(e) THEN
    IF is_conflict(e) THEN Exc("TableAlreadyExists", e.status)
    ELSE IF is_not_found(e) THEN Exc("NamespaceNotFound", e.status)
    ELSE Exc("Internal", e.status)
  ELSE IF e.cls \in {"TableAlreadyExists", "NamespaceNotFound", "InvalidInput"} THEN e
  ELSE Exc("Internal", e.status)

\* handlers of describe_table whose generic handler comes first
GravDescribeTableHandlers_GenericFirst(e) ==
  IF IsRestClientException(e) THEN
    IF is_not_found(e) THEN Exc("TableNotFound", e.status)
    ELSE Exc("Internal", e.status)
  ELSE Exc("Internal", e.status)

GravDescribeTableHandlers(e) ==
  IF IsRestClientException(e) THEN
    IF is_not_found(e) THEN Exc("TableNotFound", e.status)
    ELSE Exc("Internal", e.status)
  ELSE IF e.cls \in {"TableNotFound", "InvalidInput"} THEN e
  ELSE Exc("Internal", e.status)

GravDeregisterTableHandlers(e) ==
  IF IsRestClientException(e) THEN
    IF is_not_found(e) THEN Exc("TableNotFound", e.status)
    ELSE Exc("Internal", e.status)
  ELSE IF e.cls \in {"TableNotFound", "InvalidInput"} THEN e
  ELSE Exc("Internal", e.status)

\* the depth test every Gravitino method makes before its try block
GravNamespaceDepthOk(ns_id) == ~(ns_id = <<>> \/ Len(ns_id) > 2)
\* a depth test of list_tables that lets deeper identifiers through
GravListTablesDepthOk_AtLeast(ns_id) == Len(ns_id) >= 2
GravListTablesDepthOk(ns_id) == Len(ns_id) = 2
GravTableDepthOk(table_id) == Len(table_id) = 3

GravInvalidInput(op, id) == Raised(op, id, "InvalidInput", "", <<>>)

GravCreateNamespace(id, props, fs) ==
  LET op == [name |-> "create_namespace", props |-> props, fs |-> fs]
      c1 == <<RestCall("POST", "/namespace/", id, "/create",
                       [id |-> id, mode |-> "create", properties |-> props])>>
      e == IF fs # 0 THEN HttpError(fs)
           ELSE IF GravNsExists(id) THEN HttpError(409)
           ELSE IF Len(id) = 2 /\ ~GravNsExists(<<id[1]>>) THEN HttpError(404)
           ELSE NoExc
  IN
  /\ res = NoRes
  /\ adapter = "gravitino"
  /\ UNCHANGED <<adapter, codec, conc, inst, hiveVars, iceVars, gravTables>>
  /\ IF ~GravNamespaceDepthOk(id) THEN
       /\ res' = GravInvalidInput(op, id)
       /\ UNCHANGED gravNs
     ELSE IF e # NoExc THEN
       /\ res' = GravRaised(op, id, e, GravCreateNamespaceHandlers(e), c1)
       /\ UNCHANGED gravNs
     ELSE
       /\ gravNs' = gravNs \cup {[id |-> id, properties |-> props]}
       /\ res' = Returned(op, id, c1)

GravDescribeNamespace(id, fs) ==
  LET op == [name |-> "describe_namespace", fs |-> fs]
      c1 == <<RestCall("POST", "/namespace/", id, "/describe", [id |-> id])>>
      e == IF fs # 0 THEN HttpError(fs)
           ELSE IF ~GravNsExists(id) THEN HttpError(404)
           ELSE NoExc
  IN
  /\ res = NoRes
  /\ adapter = "gravitino"
  /\ UNCHANGED <<adapter, codec, conc, inst, hiveVars, iceVars, gravVars>>
  /\ IF ~GravNamespaceDepthOk(id) THEN res' = GravInvalidInput(op, id)
     ELSE IF e # NoExc THEN
       res' = GravRaised(op, id, e, GravDescribeNamespaceHandlers(e), c1)
     ELSE res' = Returned(op, id, c1)

\* a drop payload that always carries a behavior
DropRequest_AlwaysBehavior(id, behavior) == [id |-> id, behavior |-> behavior]

\* drop_request = {"id": ns_id}, with request.behavior when it is set
DropRequest(id, behavior) ==
  IF behavior # None THEN [id |-> id, behavior |-> behavior] ELSE [id |-> id]

GravDropNamespace(id, behavior, fs) ==
  LET op == [name |-> "drop_namespace", behavior |-> behavior, fs |-> fs]
      drop_request == DropRequest(id, behavior)
      c1 == <<RestCall("POST", "/namespace/", id, "/drop", drop_request)>>
      nonEmpty == GravChildren(id) # {} \/ (Len(id) = 2 /\ GravTablesOf(id) # {})
      e == IF fs # 0 THEN HttpError(fs)
           ELSE IF ~GravNsExists(id) THEN HttpError(404)
           ELSE IF nonEmpty /\ behavior # "CASCADE" THEN HttpError(409)
           ELSE NoExc
      out == GravDropNamespaceHandlers(e)
  IN
  /\ res = NoRes
  /\ adapter = "gravitino"
  /\ UNCHANGED <<adapter, codec, conc, inst, hiveVars, iceVars>>
  /\ IF ~GravNamespaceDepthOk(id) THEN
       /\ res' = GravInvalidInput(op, id)
       /\ UNCHANGED gravVars
     ELSE IF e # NoExc THEN
       /\ res' = IF out = NoExc THEN [Returned(op, id, c1) EXCEPT !.inner = e]
                 ELSE GravRaised(op, id, e, out, c1)
       /\ UNCHANGED gravVars
     ELSE
       /\ gravNs' = {n \in gravNs : ~IsPrefix(id, n.id)}
       /\ gravTables' = {t \in gravTables : ~IsPrefix(id, t.id)}
       /\ res' = Returned(op, id, c1)

\* the shapes in which the service answers a list request: the names under
\* "namespaces", a bare list, the names under "catalogs" or under "schemas",
\* or nothing
ListShapes == {"namespaces", "list", "catalogs", "schemas", "empty"}

GravListNamespacesHandlers(e) ==
  IF IsRestClientException(e) THEN
    IF is_not_found(e) THEN NoExc
    ELSE Exc("Internal", e.status)
  ELSE Exc("Internal", e.status)

GravListNamespaces(id, shape, twice, fs) ==
  LET op == [name |-> "list_namespaces", shape |-> shape, twice |-> twice, fs |-> fs]
      c1 == <<[fn |-> "GET", prefix |-> "/namespace/",
               path |-> IF id = <<>> THEN <<"%", "2", "E">> ELSE Quote(id[1]),
               suffix |-> "/list",
               payload |-> IF id = <<>> THEN [delimiter |-> "."] ELSE EmptyDict]>>
      e == IF fs # 0 THEN HttpError(fs)
           ELSE IF id # <<>> /\ ~GravNsExists(id) THEN HttpError(404)
           ELSE NoExc
      out == GravListNamespacesHandlers(e)
      children == {c[Len(c)] : c \in GravChildren(id)}
      \* f"{ns_id[0]}.{ns}"
      qualified(ns) == IF id = <<>> THEN ns ELSE id[1] \o <<".">> \o ns
  IN
  /\ res = NoRes
  /\ adapter = "gravitino"
  /\ UNCHANGED <<adapter, codec, conc, inst, hiveVars, iceVars, gravVars>>
  /\ IF Len(id) >= 2 THEN
       \* "Cannot list below schema level"
       res' = Returned(op, id, <<>>)
     ELSE IF e # NoExc THEN
       res' = IF out = NoExc THEN [Returned(op, id, c1) EXCEPT !.inner = e]
              ELSE GravRaised(op, id, e, out, c1)
     ELSE
       \* the names in the order the service reports them, possibly each twice
       \E reported \in Perms(children) :
         LET listed == IF twice THEN reported \o reported ELSE reported
             namespaces ==
               IF shape \in {"namespaces", "schemas"}
                 THEN [i \in DOMAIN listed |-> qualified(listed[i])]
               ELSE IF shape \in {"list", "catalogs"} THEN listed
               ELSE <<>>
         IN res' = [Returned(op, id, c1) EXCEPT !.names = StrSortedOfSet(Range(namespaces))]

GravListTables(id, composite, fs) ==
  LET op == [name |-> "list_tables", composite |-> composite, fs |-> fs]
      c1 == <<RestCall("GET", "/namespace/", id, "/table/list", EmptyDict)>>
      e == IF fs # 0 THEN HttpError(fs)
           ELSE IF ~GravNsExists(id) THEN HttpError(404)
           ELSE NoExc
      \* the service reports bare names or full "catalog$schema$table" identifiers
      render(t) == IF composite THEN Join(<<"$">>, <<id[1], id[2], t>>) ELSE t
  IN
  /\ res = NoRes
  /\ adapter = "gravitino"
  /\ UNCHANGED <<adapter, codec, conc, inst, hiveVars, iceVars, gravVars>>
  /\ IF ~GravListTablesDepthOk(id) THEN res' = GravInvalidInput(op, id)
     ELSE IF e # NoExc THEN
       res' = GravRaised(op, id, e, GravListTablesHandlers(e), c1)
     ELSE
       \E reported \in Perms(GravTablesOf(id)) :
         LET tables == [i \in DOMAIN reported |-> ListedTableName(render(reported[i]))]
         IN res' = [Returned(op, id, c1) EXCEPT !.names = StrSortedOfSet(Range(tables))]

GravDeclareTable(id, location, fs) ==
  LET op == [name |-> "declare_table", location |-> location, fs |-> fs]
      c1 == <<RestCall("POST", "/table/", id, "/register",
                       [id |-> id, location |-> location, mode |-> "CREATE"])>>
      e == IF fs # 0 THEN HttpError(fs)
           ELSE IF GravHasTable(id) THEN HttpError(409)
           ELSE IF ~GravNsExists(SubSeq(id, 1, 2)) THEN HttpError(404)
           ELSE NoExc
  IN
  /\ res = NoRes
  /\ adapter = "gravitino"
  /\ UNCHANGED <<adapter, codec, conc, inst, hiveVars, iceVars, gravNs>>
  /\ IF ~GravTableDepthOk(id) THEN
       /\ res' = GravInvalidInput(op, id)
       /\ UNCHANGED gravTables
     ELSE IF e # NoExc THEN
       /\ res' = GravRaised(op, id, e, GravDeclareTableHandlers(e), c1)
       /\ UNCHANGED gravTables
     ELSE
       /\ Cardinality(gravTables) < MaxTables
       /\ gravTables' = gravTables \cup {[id |-> id, location |-> location]}
       \* the service echoes the location it stored
       /\ res' = [Returned(op, id, c1) EXCEPT !.location = location]

\* how describe_table reads the answer of the exists request
TableExistsFrom(shape) ==
  CASE shape = "empty" -> FALSE
    [] shape = "dict_true" -> TRUE
    [] shape = "dict_false" -> FALSE
    [] shape = "bool_true" -> TRUE
    [] OTHER -> TRUE

GravDescribeTable(id, ldm, shape, fs) ==
  LET op == [name |-> "describe_table", ldm |-> ldm, shape |-> shape, fs |-> fs]
      c1 == <<RestCall("POST", "/table/", id, "/exists", [id |-> id])>>
      \* an absent table is answered with 404 or with {"exists": false}
      e == IF fs # 0 THEN HttpError(fs)
           ELSE IF ~GravHasTable(id) /\ shape # "dict_false" THEN HttpError(404)
           ELSE IF ~TableExistsFrom(shape) THEN Exc("TableNotFound", 0)
           ELSE NoExc
  IN
  /\ res = NoRes
  /\ adapter = "gravitino"
  /\ UNCHANGED <<adapter, codec, conc, inst, hiveVars, iceVars, gravVars>>
  /\ GravHasTable(id) => shape # "dict_false"
  /\ IF ldm THEN res' = GravInvalidInput(op, id)
     ELSE IF ~GravTableDepthOk(id) THEN res' = GravInvalidInput(op, id)
     ELSE IF e # NoExc THEN
       res' = GravRaised(op, id, e, GravDescribeTableHandlers(e), c1)
     ELSE
       \* location=None, storage_options={}
       res' = [Returned(op, id, c1) EXCEPT !.location = NoLocation]

GravDeregisterTable(id, fs) ==
  LET op == [name |-> "deregister_table", fs |-> fs]
      c1 == <<RestCall("POST", "/table/", id, "/deregister", [id |-> id])>>
      e == IF fs # 0 THEN HttpError(fs)
           ELSE IF ~GravHasTable(id) THEN HttpError(404)
           ELSE NoExc
  IN
  /\ res = NoRes
  /\ adapter = "gravitino"
  /\ UNCHANGED <<adapter, codec, conc, inst, hiveVars, iceVars, gravNs>>
  /\ IF ~GravTableDepthOk(id) THEN
       /\ res' = GravInvalidInput(op, id)
       /\ UNCHANGED gravTables
     ELSE IF e # NoExc THEN
       /\ res' = GravRaised(op, id, e, GravDeregisterTableHandlers(e), c1)
       /\ UNCHANGED gravTables
     ELSE
       /\ gravTables' = gravTables \ {GravTable(id)}
       \* the service answers with the location of the entry it removed
       /\ res' = [Returned(op, id, c1) EXCEPT !.location = GravTable(id).location]

\* ------------------------------------------------------------ the system
Init ==
  /\ adapter \in {"hive3", "iceberg", "gravitino"}
  /\ hiveDbs = {HiveDatabaseOf("default", EmptyDict)}
  /\ hiveTables = {}
  /\ hiveClient = [created |-> FALSE, open |-> FALSE]
  /\ iceNs = {}
  /\ iceTables = {}
  /\ gravNs = {}
  /\ gravTables = {}
  /\ res = NoRes
  /\ codec = CodecOff
  /\ conc = ConcOff
  /\ inst = InstOff

\* the caller takes the result of a call before it issues the next one
ReturnToCaller ==
  /\ res # NoRes
  /\ res' = NoRes
  /\ UNCHANGED <<adapter, codec, conc, inst, hiveVars, iceVars, gravVars>>

\* the inputs of the next call: the caller issues a call only once it has
\* taken the result of the previous one
WhenIdle(inputs) == IF res = NoRes THEN inputs ELSE {}

HiveCall ==
  \/ \E id \in WhenIdle(HiveNsIds), mode \in Modes, props \in NsPropsChoices :
       \E fault \in CreateNamespaceFaults(mode) : HiveCreateNamespace(id, mode, props, fault)
  \/ \E id \in WhenIdle(HiveNsIds), fault \in 0..2 : HiveDropNamespace(id, fault)
  \/ \E id \in WhenIdle(HiveNsIds), fault \in 0..1 : HiveListTables(id, fault)
  \/ \E id \in WhenIdle(HiveNsIds), fault \in 0..1 : HiveListNamespaces(id, fault)
  \/ \E id \in WhenIdle(HiveNsIds), fault \in 0..1 : HiveDescribeNamespace(id, fault)
  \/ \E id \in WhenIdle(HiveNsIds), fault \in 0..1 : HiveNamespaceExists(id, fault)
  \/ \E id \in WhenIdle(HiveTableIds), ldm \in BOOLEAN, fault \in 0..1 :
       HiveDescribeTable(id, ldm, fault)
  \/ \E id \in WhenIdle(HiveTableIds), fault \in 0..1 : HiveTableExists(id, fault)
  \/ \E id \in WhenIdle(HiveTableIds), location \in ReqLocations, props \in TblPropsChoices,
        fault \in 0..1 : HiveRegisterTable(id, location, props, fault)
  \/ \E id \in WhenIdle(HiveTableIds), location \in {NoLocation}, props \in {EmptyDict},
        fault \in 0..1 :
       HiveCreateEmptyTable(id, location, props, fault)
  \/ \E id \in WhenIdle(HiveTableIds), fault \in 0..2 : HiveDeregisterTable(id, fault)
  \/ \E db \in WhenIdle({"default"}), tbl \in HiveTblSegs, parameters \in ForeignParams :
       \E location \in ForeignLocationsOf(parameters) :
         HmsForeignCreate(db, tbl, parameters, location)

IceCall ==
  \/ \E id \in WhenIdle(IceNsIds), fault \in 0..1 : IceListTables(id, fault)
  \/ \E id \in WhenIdle(IceNsIds), fault \in 0..1 : IceListNamespaces(id, fault)
  \/ \E id \in WhenIdle(IceNsIds), fault \in 0..1 : IceDescribeNamespace(id, fault)
  \/ \E id \in WhenIdle(IceNsIds), fault \in 0..1 : IceNamespaceExists(id, fault)
  \/ \E id \in WhenIdle(IceTableIds), ldm \in BOOLEAN, fault \in 0..1, nometa \in BOOLEAN :
       IceDescribeTable(id, ldm, fault, nometa)
  \/ \E id \in WhenIdle(IceTableIds), fault \in 0..1, nometa \in BOOLEAN :
       IceTableExists(id, fault, nometa)
  \/ \E id \in WhenIdle(IceNsIds), props \in NsPropsChoices, fault \in 0..1 :
       IceCreateNamespace(id, props, fault)
  \/ \E id \in WhenIdle(IceNsIds), fault \in 0..1 : IceDropNamespace(id, fault)
  \/ \E id \in WhenIdle(IceTableIds), location \in {NoLocation, <<"/data/a">>},
        props \in TblPropsChoices, fault \in 0..1 :
       IceCreateEmptyTable(id, location, props, fault)
  \/ \E id \in WhenIdle(IceTableIds), fault \in 0..2 : IceDropTable(id, fault)
  \/ \E ns \in WhenIdle(IceNsIds), name \in IceTblNames, props \in IceForeignProps :
       IceForeignCreate(ns, name, props)

GravCall ==
  \/ \E id \in WhenIdle(GravIds), props \in NsPropsChoices, fs \in GravFaults :
       GravCreateNamespace(id, props, fs)
  \/ \E id \in WhenIdle(GravIds), fs \in GravFaults : GravDescribeNamespace(id, fs)
  \/ \E id \in WhenIdle(GravIds), behavior \in {None, "CASCADE", "RESTRICT"},
        fs \in GravFaults :
       GravDropNamespace(id, behavior, fs)
  \/ \E id \in WhenIdle(GravIds), composite \in BOOLEAN, fs \in GravFaults :
       GravListTables(id, composite, fs)
  \/ \E id \in WhenIdle(GravIds), shape \in ListShapes, twice \in BOOLEAN,
        fs \in GravFaults \cup {404} : GravListNamespaces(id, shape, twice, fs)
  \/ \E id \in WhenIdle(GravIds), location \in ReqLocations, fs \in GravFaults :
       GravDeclareTable(id, location, fs)
  \/ \E id \in WhenIdle(GravIds), ldm \in BOOLEAN, shape \in ExistsShapes, fs \in GravFaults :
       GravDescribeTable(id, ldm, shape, fs)
  \/ \E id \in WhenIdle(GravIds), fs \in GravFaults : GravDeregisterTable(id, fs)

Next ==
  \/ HiveCall
  \/ IceCall
  \/ GravCall
  \/ ReturnToCaller

Spec == Init /\ [][Next]_vars

\* ------------------------------------------------------------ the codec
\* the characters of the segments handed to the codec, and the segments
CodecChars == {"a", "$", "%"}
CodecSegments == UNION {[1..n -> CodecChars] : n \in 1..MaxSegLen}
CodecInputs == UNION {[1..n -> CodecSegments] : n \in 1..MaxSegs}

\* a table identifier is handed to the adapter
InitCodec ==
  /\ adapter = "gravitino"
  /\ hiveDbs = {HiveDatabaseOf("default", EmptyDict)}
  /\ hiveTables = {}
  /\ hiveClient = [created |-> FALSE, open |-> FALSE]
  /\ iceNs = {}
  /\ iceTables = {}
  /\ gravNs = {}
  /\ gravTables = {}
  /\ res = NoRes
  /\ codec \in {[CodecOff EXCEPT !.stage = "input", !.segs = segs] : segs \in CodecInputs}
  /\ conc = ConcOff
  /\ inst = InstOff

\* the adapter builds the wire path of the identifier
CodecEncode ==
  /\ codec.stage = "input"
  /\ codec' = [codec EXCEPT !.stage = "encoded",
                            !.path = _encode_namespace_path(codec.segs)]
  /\ UNCHANGED <<adapter, hiveVars, iceVars, gravVars, res, conc, inst>>

\* the service lists the identifier in its composite "$"-joined form and
\* list_tables extracts the table name from it
CodecExtract ==
  /\ codec.stage = "encoded"
  /\ codec' = [codec EXCEPT !.stage = "listed",
                            !.listed = ListedTableName(Join(<<"$">>, codec.segs))]
  /\ UNCHANGED <<adapter, hiveVars, iceVars, gravVars, res, conc, inst>>

NextCodec == CodecEncode \/ CodecExtract

SpecCodec == InitCodec /\ [][NextCodec]_vars

\* ------------------------------------------------------------ the Hive3 client
\* One Hive3Namespace instance called by conc.n threads.  conc.client is
\* Hive3Namespace._client: created once, with the Thrift transport it holds
\* now (transport is the identity of the TBufferedTransport object, 0 for
\* none) and whether that transport is open.  Every operation of the adapter
\* runs "with self.client as client:" around its metastore calls; pc[t] is the
\* position of thread t in that statement, mine[t] the transport the Client
\* object it was handed is bound to.
Threads == 1..MaxThreads

NoClient == [created |-> FALSE, transport |-> 0, open |-> FALSE, made |-> 0]

\* Hive3MetastoreClient._init_client: a new socket and transport, opened
\* unless the connection is refused
_init_client(c, refused) ==
  [c EXCEPT !.transport = c.made + 1, !.made = c.made + 1, !.open = ~refused]

\* an exit that leaves the transport open when the block raised
__exit___KeepOpenOnError(c, raising) ==
  IF c.transport # 0 /\ c.open /\ ~raising THEN [c EXCEPT !.open = FALSE] ELSE c

\* Hive3MetastoreClient.__exit__: called on return and on raise alike
__exit__(c, raising) ==
  IF c.transport # 0 /\ c.open THEN [c EXCEPT !.open = FALSE] ELSE c

restVars == <<adapter, hiveVars, iceVars, gravVars, res, codec, inst>>

InitClient ==
  /\ adapter = "hive3"
  /\ hiveDbs = {HiveDatabaseOf("default", EmptyDict)}
  /\ hiveTables = {}
  /\ hiveClient = [created |-> FALSE, open |-> FALSE]
  /\ iceNs = {}
  /\ iceTables = {}
  /\ gravNs = {}
  /\ gravTables = {}
  /\ res = NoRes
  /\ codec = CodecOff
  /\ inst = InstOff
  /\ \E n \in Threads :
       conc = [n |-> n,
               client |-> NoClient,
               pc |-> [t \in Threads |-> "idle"],
               mine |-> [t \in Threads |-> 0],
               left |-> [t \in Threads |-> 0],
               raising |-> [t \in Threads |-> FALSE],
               ops |-> 0]

\* a thread calls an operation that makes `calls` metastore calls; conc.ops
\* counts the operations called on the instance
ClientStartOp(t, calls) ==
  /\ t <= conc.n
  /\ conc.pc[t] = "idle"
  /\ conc.ops < MaxOps
  /\ conc' = [conc EXCEPT !.pc[t] = "property", !.left[t] = calls, !.ops = @ + 1,
                          !.raising[t] = FALSE, !.mine[t] = 0]
  /\ UNCHANGED restVars

\* Hive3Namespace.client: the first use constructs the client, whose
\* __init__ runs _init_client
ClientProperty(t, refused) ==
  /\ t <= conc.n
  /\ conc.pc[t] = "property"
  /\ IF conc.client.created THEN
       conc' = [conc EXCEPT !.pc[t] = "enter"]
     ELSE IF refused THEN
       \* the constructor raises and self._client stays None
       conc' = [conc EXCEPT !.pc[t] = "idle", !.raising[t] = TRUE]
     ELSE
       conc' = [conc EXCEPT !.pc[t] = "enter",
                            !.client = [_init_client(conc.client, FALSE)
                                          EXCEPT !.created = TRUE]]
  /\ UNCHANGED restVars

\* Hive3MetastoreClient.__enter__: a transport that is not open is replaced
ClientEnter(t, refused) ==
  /\ t <= conc.n
  /\ conc.pc[t] = "enter"
  /\ IF conc.client.transport # 0 /\ conc.client.open THEN
       conc' = [conc EXCEPT !.pc[t] = "body", !.mine[t] = conc.client.transport]
     ELSE IF refused THEN
       \* transport.open() raises: the block is not entered, __exit__ not called
       conc' = [conc EXCEPT !.pc[t] = "idle", !.raising[t] = TRUE,
                            !.client = _init_client(conc.client, TRUE)]
     ELSE
       conc' = [conc EXCEPT !.pc[t] = "body",
                            !.client = _init_client(conc.client, FALSE),
                            !.mine[t] = conc.client.made + 1]
  /\ UNCHANGED restVars

\* one metastore call inside the block: it needs the transport of the Client
\* object the thread holds to be open; the metastore may answer with an
\* exception
ClientCall(t, fails) ==
  /\ t <= conc.n
  /\ conc.pc[t] = "body"
  /\ IF ~(conc.client.open /\ conc.client.transport = conc.mine[t]) \/ fails THEN
       conc' = [conc EXCEPT !.pc[t] = "exit", !.raising[t] = TRUE]
     ELSE
       conc' = [conc EXCEPT !.left[t] = @ - 1,
                            !.pc[t] = IF conc.left[t] = 1 THEN "exit" ELSE "body"]
  /\ UNCHANGED restVars

\* the block is left, by return or by an exception
ClientExit(t) ==
  /\ t <= conc.n
  /\ conc.pc[t] = "exit"
  /\ conc' = [conc EXCEPT !.pc[t] = "idle",
                          !.client = __exit__(conc.client, conc.raising[t])]
  /\ UNCHANGED restVars

NextClient ==
  \/ \E t \in Threads, calls \in 1..MaxCalls : ClientStartOp(t, calls)
  \/ \E t \in Threads, refused \in BOOLEAN : ClientProperty(t, refused)
  \/ \E t \in Threads, refused \in BOOLEAN : ClientEnter(t, refused)
  \/ \E t \in Threads, fails \in BOOLEAN : ClientCall(t, fails)
  \/ \E t \in Threads : ClientExit(t)

SpecClient == InitClient /\ [][NextClient]_vars

\* ------------------------------------------------------------ listing databases
\* Hive3 list_namespaces against a metastore that holds databases made by
\* other tools as well
OtherDatabases == {"d1", "d2", "d3"}

InitDatabases ==
  /\ adapter = "hive3"
  /\ \E others \in SUBSET OtherDatabases :
       hiveDbs = {HiveDatabaseOf(n, EmptyDict) : n \in {"default"} \cup others}
  /\ hiveTables = {}
  /\ hiveClient = [created |-> FALSE, open |-> FALSE]
  /\ iceNs = {}
  /\ iceTables = {}
  /\ gravNs = {}
  /\ gravTables = {}
  /\ res = NoRes
  /\ codec = CodecOff
  /\ conc = ConcOff
  /\ inst = InstOff

ListNamespacesCall ==
  \E id \in WhenIdle(HiveNsIds), fault \in 0..1 : HiveListNamespaces(id, fault)

NextDatabases ==
  \/ ListNamespacesCall
  \/ ReturnToCaller

SpecDatabases == InitDatabases /\ [][NextDatabases]_vars

\* ------------------------------------------------------------ the Hive3Namespace object
\* Hive3Namespace.__init__, client, __getstate__ and __setstate__: the object
\* is its __dict__; a client is the arguments Hive3MetastoreClient was
\* constructed with, and serial 0 stands for None
NoneClient == [serial |-> 0, uri |-> None, ugi |-> None]

\* the working directory of the process, os.getcwd()
Cwd == "/cwd"

\* the properties an adapter is constructed from: every key is given or not
PropertyChoices ==
  [uri |-> "thrift://hms:9083", ugi |-> "alice:staff", root |-> "/warehouse",
   pool_size |-> "5", storage |-> "eu-west-1"]

PropertyKey(f) ==
  CASE f = "pool_size" -> "client.pool-size"
    [] f = "storage" -> "storage.region"
    [] OTHER -> f

InitProperties ==
  {[k \in {PropertyKey(f) : f \in given} |->
      PropertyChoices[CHOOSE f \in given : PropertyKey(f) = k]] :
     given \in SUBSET (DOMAIN PropertyChoices)}

\* int(s) of the pool sizes in use
PyInt(s) == CASE s = "3" -> 3 [] s = "5" -> 5

\* k.startswith("storage.") and k[8:]
StartsWithStorage(k) == k \in {"storage.region"}
StripStorage(k) == CASE k = "storage.region" -> "region"

\* Hive3Namespace.__init__ (HIVE_AVAILABLE): the __dict__ it leaves
Hive3NamespaceInit(properties) ==
  [uri |-> DictGet(properties, "uri", "thrift://localhost:9083"),
   ugi |-> DictGet(properties, "ugi", None),
   root |-> DictGet(properties, "root", Cwd),
   pool_size |-> PyInt(DictGet(properties, "client.pool-size", "3")),
   storage_properties |->
     LET keys == {k \in DOMAIN properties : StartsWithStorage(k)}
     IN [s \in {StripStorage(k) : k \in keys} |->
           properties[CHOOSE k \in keys : StripStorage(k) = s]],
   _properties |-> properties,
   _client |-> NoneClient]

\* Hive3Namespace.__getstate__
__getstate___KeepClient(dict) == dict

__getstate__(dict) == [dict EXCEPT !._client = NoneClient]

\* Hive3Namespace.__setstate__ on the fresh object that unpickling makes
__setstate__(dict, state) == DictUpdate(dict, state)

\* inst.dict is the __dict__ of the object, inst.obj counts the objects (the
\* constructed one and each restored copy), inst.made lists the
\* Hive3MetastoreClient(uri, ugi) constructor calls made for this object and
\* inst.last names the step that led here
InitObject ==
  /\ adapter = "hive3"
  /\ hiveDbs = {} /\ hiveTables = {} /\ hiveClient = "closed"
  /\ iceNs = {} /\ iceTables = {}
  /\ gravNs = {} /\ gravTables = {}
  /\ res = NoRes
  /\ codec = CodecOff
  /\ conc = ConcOff
  /\ \E properties \in InitProperties :
       inst = [obj |-> 1, dict |-> Hive3NamespaceInit(properties),
               made |-> <<>>, last |-> "__init__"]

objectRest == <<adapter, hiveVars, iceVars, gravVars, res, codec, conc>>

\* the client property
ObjectClient ==
  /\ inst.obj > 0
  /\ IF inst.dict._client = NoneClient
     THEN LET client == [serial |-> Len(inst.made) + 1,
                         uri |-> inst.dict.uri, ugi |-> inst.dict.ugi]
          IN inst' = [inst EXCEPT !.dict._client = client,
                                  !.made = Append(@, [uri |-> client.uri,
                                                      ugi |-> client.ugi]),
                                  !.last = "client"]
     ELSE inst' = [inst EXCEPT !.last = "client"]
  /\ UNCHANGED objectRest

\* pickle.loads(pickle.dumps(namespace)): __getstate__ on the object, then
\* __setstate__ on a new object with an empty __dict__
ObjectPickle ==
  /\ inst.obj > 0
  /\ inst.obj <= MaxRestores
  /\ inst' = [obj |-> inst.obj + 1,
              dict |-> __setstate__(EmptyDict, __getstate__(inst.dict)),
              made |-> <<>>, last |-> "pickle"]
  /\ UNCHANGED objectRest

NextObject == ObjectClient \/ ObjectPickle

SpecObject == InitObject /\ [][NextObject]_vars

\* ------------------------------------------------------------ writing table entries
\* the operations that write a table entry, with every choice of request
\* properties, on the catalogs of Init
RegisterTableCall ==
  \E id \in WhenIdle(HiveTableIds), location \in ReqLocations, props \in TblPropsChoices,
     fault \in 0..1 : HiveRegisterTable(id, location, props, fault)

CreateEmptyTableCall ==
  \E id \in WhenIdle(HiveTableIds), location \in {NoLocation, <<"/data/a">>},
     props \in TblPropsChoices, fault \in 0..1 :
    HiveCreateEmptyTable(id, location, props, fault)

IceCreateNamespaceCall ==
  \E id \in WhenIdle(IceNsIds), props \in NsPropsChoices, fault \in 0..1 :
    IceCreateNamespace(id, props, fault)

IceCreateEmptyTableCall ==
  \E id \in WhenIdle(IceTableIds), location \in {NoLocation, <<"/data/a">>},
     props \in TblPropsChoices, fault \in 0..1 :
    IceCreateEmptyTable(id, location, props, fault)

InitWriters == Init /\ adapter \in {"hive3", "iceberg"}

NextWriters ==
  \/ RegisterTableCall
  \/ CreateEmptyTableCall
  \/ IceCreateNamespaceCall
  \/ IceCreateEmptyTableCall
  \/ ReturnToCaller

SpecWriters == InitWriters /\ [][NextWriters]_vars

\* ------------------------------------------------------------ one catalog written
\* databases and tables are created through the catalog 'hive' only, and no
\* other writer touches the metastore; every catalog is read
WrittenCatalog == DEFAULT_CATALOG

RegisterInCatalog ==
  \E id \in WhenIdle({WrittenCatalog} \X HiveDbSegs \X HiveTblSegs),
     location \in ReqLocations, fault \in 0..1 :
    HiveRegisterTable(id, location, EmptyDict, fault)

CreateNamespaceInCatalog ==
  \E id \in WhenIdle({WrittenCatalog} \X HiveDbSegs), props \in NsPropsChoices,
     fault \in 0..1 :
    HiveCreateNamespace(id, None, props, fault)

TableLookup ==
  \E id \in WhenIdle(HiveCats \X HiveDbSegs \X HiveTblSegs), fault \in 0..1 :
    \/ HiveDescribeTable(id, FALSE, fault)
    \/ HiveTableExists(id, fault)

DeregisterCall ==
  \E id \in WhenIdle(HiveCats \X HiveDbSegs \X HiveTblSegs), fault \in 0..2 :
    HiveDeregisterTable(id, fault)

ListingCall ==
  \E id \in WhenIdle(HiveNsIds), fault \in 0..1 :
    \/ HiveListTables(id, fault)
    \/ HiveListNamespaces(id, fault)

InitCatalogs == Init /\ adapter = "hive3"

NextCatalogs ==
  \/ RegisterInCatalog
  \/ CreateNamespaceInCatalog
  \/ TableLookup
  \/ DeregisterCall
  \/ ListingCall
  \/ ReturnToCaller

SpecCatalogs == InitCatalogs /\ [][NextCatalogs]_vars

\* ------------------------------------------------------------ concurrent drop_table
\* callers of Iceberg drop_table whose REST calls interleave: conc.pc[t] is
\* the place of caller t in drop_table, conc.id[t] its request.id,
\* conc.location[t] its table_location, conc.faulted[t] whether a call of
\* its own was made to fail, conc.out[t] what it got back, conc.initial the
\* tables the catalog held when the callers began
DropIds == {<<"t1">>, <<"n1", "t1">>, <<"n1", "t2">>}

DropTables ==
  {[ns |-> <<"n1">>, name |-> name, properties |-> [table_type |-> LANCE_TABLE_FORMAT],
    location |-> <<IceRoot, "n1", name>>] : name \in IceTblNames}

dropRest == <<adapter, hiveVars, iceNs, gravVars, res, codec, inst>>

InitDrops ==
  /\ adapter = "iceberg"
  /\ hiveDbs = {} /\ hiveTables = {} /\ hiveClient = [created |-> FALSE, open |-> FALSE]
  /\ iceNs = {[id |-> <<"n1">>, properties |-> EmptyDict]}
  /\ iceTables \in SUBSET DropTables
  /\ gravNs = {} /\ gravTables = {}
  /\ res = NoRes
  /\ codec = CodecOff
  /\ inst = InstOff
  /\ \E n \in Threads :
       conc = [n |-> n,
               pc |-> [t \in 1..n |-> "idle"],
               id |-> [t \in 1..n |-> <<>>],
               location |-> [t \in 1..n |-> NoLocation],
               faulted |-> [t \in 1..n |-> FALSE],
               out |-> [t \in 1..n |-> NoRes],
               initial |-> iceTables]

\* drop_table up to its try block: the identifier is parsed and checked
DropStart(t, id) ==
  /\ conc.pc[t] = "idle"
  /\ IF Len(id) < 2
     THEN conc' = [conc EXCEPT !.pc[t] = "done", !.id[t] = id,
                     !.out[t] = Raised([name |-> "drop_table"], id, "ValueError",
                                       "namespace and table name", <<>>)]
     ELSE conc' = [conc EXCEPT !.pc[t] = "lookup", !.id[t] = id]
  /\ UNCHANGED <<dropRest, iceTables>>

\* the GET of the table: a 404 ends the call with a response; any other
\* exception of the client is dropped and the call goes on
DropLookup(t, failed) ==
  LET id == conc.id[t]
      namespace == SubSeq(id, 1, Len(id) - 1)
      table_name == id[Len(id)]
      c1 == <<[fn |-> "GET", path |-> "table", ns |-> namespace, name |-> table_name]>>
      got == IceLoadTable(namespace, table_name, failed)
  IN
  /\ conc.pc[t] = "lookup"
  /\ IF got = Exc("RestClientException", 404)
     THEN conc' = [conc EXCEPT !.pc[t] = "done",
                     !.out[t] = [Returned([name |-> "drop_table"], id, c1)
                                   EXCEPT !.inner = got]]
     ELSE conc' = [conc EXCEPT !.pc[t] = "delete",
                     !.faulted[t] = @ \/ failed,
                     !.location[t] = IF got = NoExc
                                     THEN IceTable(namespace, table_name).location
                                     ELSE NoLocation]
  /\ UNCHANGED <<dropRest, iceTables>>

\* the DELETE of the table, and the handlers of the try block
DropDelete(t, failed) ==
  LET id == conc.id[t]
      namespace == SubSeq(id, 1, Len(id) - 1)
      table_name == id[Len(id)]
      c2 == <<[fn |-> "GET", path |-> "table", ns |-> namespace, name |-> table_name],
              [fn |-> "DELETE", path |-> "table", ns |-> namespace,
               name |-> table_name, purgeRequested |-> "false"]>>
      e == IF failed THEN Exc("RestClientException", 500)
           ELSE IF ~IceHasTable(namespace, table_name) THEN Exc("RestClientException", 404)
           ELSE NoExc
  IN
  /\ conc.pc[t] = "delete"
  /\ IF e # NoExc THEN
       /\ conc' = [conc EXCEPT !.pc[t] = "done",
                     !.faulted[t] = @ \/ failed,
                     !.out[t] = IceRaised([name |-> "drop_table"], id, e,
                                          IceDropTableHandlers(e), c2)]
       /\ UNCHANGED iceTables
     ELSE
       /\ iceTables' = {x \in iceTables : ~(x.ns = namespace /\ x.name = table_name)}
       /\ conc' = [conc EXCEPT !.pc[t] = "done",
                     !.out[t] = [Returned([name |-> "drop_table"], id, c2)
                                   EXCEPT !.location = conc.location[t]]]
  /\ UNCHANGED dropRest

NextDrops ==
  \/ \E t \in 1..conc.n, id \in DropIds : DropStart(t, id)
  \/ \E t \in 1..conc.n, failed \in BOOLEAN : DropLookup(t, failed)
  \/ \E t \in 1..conc.n, failed \in BOOLEAN : DropDelete(t, failed)

SpecDrops == InitDrops /\ [][NextDrops]_vars

\* ------------------------------------------------------------ list_tables step by step
\* one caller inside list_tables while another caller removes tables of the
\* namespace: conc.pc is the place of the lister, conc.names the reply of
\* the listing call, conc.i the table the loop is at, conc.tables the names
\* kept so far, conc.looked what the catalog held under each name when it
\* was looked up, conc.out the result
ListedDb == "default"
ListedNs == <<"n1">>

\* the kinds of entry a name of the namespace can have
EntryKinds == {EmptyDict, [table_type |-> "Lance"], [table_type |-> "iceberg"]}

HiveEntry(name, parameters) ==
  HmsTableObject(ListedDb, name, parameters, <<HiveRoot, ListedDb, name>>)

IceEntry(name, properties) ==
  [ns |-> ListedNs, name |-> name, properties |-> properties,
   location |-> <<IceRoot, "n1", name>>]

listRest == <<adapter, hiveDbs, iceNs, gravVars, res, codec, inst>>

InitListing ==
  /\ adapter \in {"hive3", "iceberg"}
  /\ hiveDbs = {HiveDatabaseOf(ListedDb, EmptyDict)}
  /\ hiveClient = [created |-> FALSE, open |-> FALSE]
  /\ iceNs = {[id |-> ListedNs, properties |-> EmptyDict]}
  /\ \E present \in SUBSET HiveTblSegs : \E kind \in [present -> EntryKinds] :
       /\ hiveTables = IF adapter = "hive3"
                       THEN {HiveEntry(name, kind[name]) : name \in present} ELSE {}
       /\ iceTables = IF adapter = "iceberg"
                      THEN {IceEntry(name, kind[name]) : name \in present} ELSE {}
  /\ gravNs = {} /\ gravTables = {}
  /\ res = NoRes
  /\ codec = CodecOff
  /\ inst = InstOff
  /\ conc = [n |-> 1, pc |-> "idle", names |-> <<>>, i |-> 1, tables |-> <<>>,
             looked |-> <<>>, faulted |-> FALSE, out |-> NoRes]

\* 'except Exception: continue' around the get_table of the loop
ListLoopHandlers_Propagate(e) == e

ListLoopHandlers(e) == NoExc

\* Hive3 list_tables up to the loop: client.get_all_tables(database_name)
HiveListStart(failed) ==
  /\ adapter = "hive3"
  /\ conc.pc = "idle"
  /\ IF failed
     THEN /\ conc' = [conc EXCEPT !.pc = "done", !.faulted = TRUE,
                        !.out = Raised([name |-> "list_tables"], <<DEFAULT_CATALOG, ListedDb>>,
                                       "MetaException", "", <<>>)]
          /\ hiveClient' = ClientAfterWith
     ELSE /\ \E table_names \in Perms(HmsTablesOf(ListedDb)) :
               conc' = [conc EXCEPT !.pc = "loop", !.names = table_names]
          /\ UNCHANGED hiveClient
  /\ UNCHANGED <<listRest, hiveTables, iceTables>>

\* one turn of the loop: client.get_table and the test of its parameters
HiveListLookup(failed) ==
  LET table_name == conc.names[conc.i]
      e == IF failed THEN Exc("MetaException", 0)
           ELSE IF ~HmsHasTable(ListedDb, table_name) THEN Exc("NoSuchObjectException", 0)
           ELSE NoExc
      found == {t \in hiveTables : t.dbName = ListedDb /\ t.tableName = table_name}
      seen == [name |-> table_name,
               found |-> {t.parameters : t \in found}]
  IN
  /\ adapter = "hive3"
  /\ conc.pc = "loop"
  /\ conc.i <= Len(conc.names)
  /\ IF ListLoopHandlers(e) # NoExc THEN
       \* the outer handlers of list_tables
       /\ conc' = [conc EXCEPT !.pc = "done", !.faulted = @ \/ failed,
                     !.looked = Append(@, seen),
                     !.out = IF e.cls = "NoSuchObjectException"
                             THEN Raised([name |-> "list_tables"],
                                         <<DEFAULT_CATALOG, ListedDb>>,
                                         "ValueError", "does not exist", <<>>)
                             ELSE Raised([name |-> "list_tables"],
                                         <<DEFAULT_CATALOG, ListedDb>>,
                                         e.cls, "", <<>>)]
       /\ hiveClient' = ClientAfterWith
     ELSE
       /\ conc' = [conc EXCEPT
                     !.i = @ + 1,
                     !.faulted = @ \/ failed,
                     !.looked = Append(@, seen),
                     !.tables = IF e = NoExc
                                   /\ HiveIsLance(HmsTable(ListedDb, table_name).parameters)
                                THEN Append(@, table_name) ELSE @]
       /\ UNCHANGED hiveClient
  /\ UNCHANGED <<listRest, hiveTables, iceTables>>

\* the loop is over: ListTablesResponse(tables=tables)
HiveListReturn ==
  /\ adapter = "hive3"
  /\ conc.pc = "loop"
  /\ conc.i > Len(conc.names)
  /\ conc' = [conc EXCEPT !.pc = "done",
                !.out = [Returned([name |-> "list_tables"], <<DEFAULT_CATALOG, ListedDb>>,
                                  <<>>) EXCEPT !.names = conc.tables]]
  /\ hiveClient' = ClientAfterWith
  /\ UNCHANGED <<listRest, hiveTables, iceTables>>

\* Iceberg list_tables up to the loop: GET /namespaces/{ns}/tables
IceListStart(failed) ==
  /\ adapter = "iceberg"
  /\ conc.pc = "idle"
  /\ IF failed
     THEN conc' = [conc EXCEPT !.pc = "done", !.faulted = TRUE,
                     !.out = IceRaised([name |-> "list_tables"], ListedNs,
                                       Exc("RestClientException", 500),
                                       IceListTablesHandlers(Exc("RestClientException", 500)),
                                       <<>>)]
     ELSE \E identifiers \in Perms(IceTablesOf(ListedNs)) :
            conc' = [conc EXCEPT !.pc = "loop", !.names = identifiers]
  /\ UNCHANGED <<listRest, hiveClient, hiveTables, iceTables>>

\* one turn of the loop: _is_lance_table(ns_id, table_name)
IceListLookup(failed) ==
  LET table_name == conc.names[conc.i]
      found == {t \in iceTables : t.ns = ListedNs /\ t.name = table_name}
      seen == [name |-> table_name, found |-> {t.properties : t \in found}]
  IN
  /\ adapter = "iceberg"
  /\ conc.pc = "loop"
  /\ conc.i <= Len(conc.names)
  /\ conc' = [conc EXCEPT
                !.i = @ + 1,
                !.faulted = @ \/ failed,
                !.looked = Append(@, seen),
                !.tables = IF _is_lance_table(ListedNs, table_name, failed)
                           THEN Append(@, table_name) ELSE @]
  /\ UNCHANGED <<listRest, hiveClient, hiveTables, iceTables>>

\* the loop is over: tables = sorted(set(tables))
IceListReturn ==
  /\ adapter = "iceberg"
  /\ conc.pc = "loop"
  /\ conc.i > Len(conc.names)
  /\ conc' = [conc EXCEPT !.pc = "done",
                !.out = [Returned([name |-> "list_tables"], ListedNs, <<>>)
                           EXCEPT !.names = SortedSet(conc.tables)]]
  /\ UNCHANGED <<listRest, hiveClient, hiveTables, iceTables>>

\* another caller's deregister_table or drop_table takes a table away
OtherCallerRemoves ==
  /\ conc.pc # "done"
  /\ \/ /\ adapter = "hive3"
        /\ \E t \in hiveTables : hiveTables' = hiveTables \ {t}
        /\ UNCHANGED iceTables
     \/ /\ adapter = "iceberg"
        /\ \E t \in iceTables : iceTables' = iceTables \ {t}
        /\ UNCHANGED hiveTables
  /\ UNCHANGED <<listRest, hiveClient, conc>>

NextListing ==
  \/ \E failed \in BOOLEAN : HiveListStart(failed)
  \/ \E failed \in BOOLEAN : HiveListLookup(failed)
  \/ HiveListReturn
  \/ \E failed \in BOOLEAN : IceListStart(failed)
  \/ \E failed \in BOOLEAN : IceListLookup(failed)
  \/ IceListReturn
  \/ OtherCallerRemoves

SpecListing == InitListing /\ [][NextListing]_vars

\* ------------------------------------------------------------ the claims
\* the stored properties mark the entry as Lance-managed: table_type is
\* present and is "lance" in some letter case
LanceManaged(props) ==
  /\ TABLE_TYPE_KEY \in DOMAIN props
  /\ props[TABLE_TYPE_KEY] \in {"lance", "Lance", "LANCE"}

\* the names of the entries of the namespace the last list_tables was about,
\* restricted to the entries that satisfy keep
HiveStoredNames(ns_id, keep(_)) ==
  {t.tableName : t \in {x \in hiveTables : x.dbName = Lower(ns_id[2]) /\ keep(x.parameters)}}
IceStoredNames(ns_id, keep(_)) ==
  {t.name : t \in {x \in iceTables : x.ns = ns_id /\ keep(x.properties)}}

\* the last call was a list_tables of Hive3 or Iceberg on a namespace that
\* may hold tables, and it returned
ListedNamespace ==
  /\ res.op.name = "list_tables"
  /\ res.err = "ok"
  /\ \/ adapter = "hive3" /\ Len(res.id) >= 2
     \/ adapter = "iceberg" /\ Len(res.id) >= 1

StoredLanceNames ==
  IF adapter = "hive3" THEN HiveStoredNames(res.id, LanceManaged)
  ELSE IceStoredNames(res.id, LanceManaged)

StoredForeignNames ==
  LET foreign(props) == ~LanceManaged(props)
  IN IF adapter = "hive3" THEN HiveStoredNames(res.id, foreign)
     ELSE IceStoredNames(res.id, foreign)

\* C1: in Hive3 and Iceberg, list_tables returns only names of entries whose
\* stored table_type is "lance" (case-insensitive), and when no per-table
\* lookup failed it returns all of them.
C1_ListTablesExactlyLance ==
  ListedNamespace =>
    /\ Range(res.names) \subseteq StoredLanceNames
    /\ ~res.lookupsFailed => Range(res.names) = StoredLanceNames

\* a namespace that mixes a Lance-managed and a foreign table was listed
C1_Witness ==
  /\ ListedNamespace
  /\ StoredLanceNames # {}
  /\ StoredForeignNames # {}
  /\ Range(res.names) = StoredLanceNames

\* the catalog entry the last table call of Hive3 or Iceberg was about
TableCallEntryExists ==
  IF adapter = "hive3" THEN
    /\ _normalize_identifier(res.id) # <<>>
    /\ HmsHasTable(_normalize_identifier(res.id)[2], _normalize_identifier(res.id)[3])
  ELSE IF adapter = "iceberg" THEN
    /\ Len(res.id) >= 2
    /\ IceHasTable(SubSeq(res.id, 1, Len(res.id) - 1), res.id[Len(res.id)])
  ELSE FALSE

TableCallEntryProps ==
  IF adapter = "hive3"
  THEN HmsTable(_normalize_identifier(res.id)[2], _normalize_identifier(res.id)[3]).parameters
  ELSE IceTable(SubSeq(res.id, 1, Len(res.id) - 1), res.id[Len(res.id)]).properties

\* C2: describe_table and table_exists of Hive3 and Iceberg never succeed for
\* an entry whose stored properties do not mark it as Lance-managed: the call
\* fails and returns no location.
C2_ForeignEntryNeverDescribed ==
  (/\ res.op.name \in {"describe_table", "table_exists"}
   /\ TableCallEntryExists
   /\ ~LanceManaged(TableCallEntryProps))
  => (res.err # "ok" /\ res.location = NoLocation)

\* describe_table of Iceberg was called on a foreign entry and refused it
C2_Witness ==
  /\ adapter = "iceberg"
  /\ res.op.name = "describe_table"
  /\ TableCallEntryExists
  /\ ~LanceManaged(TableCallEntryProps)
  /\ res.err = "LanceNamespaceException"
  /\ res.status = 400

\* the identifier lengths each Gravitino operation accepts
GravValidDepths(opname) ==
  CASE opname \in {"create_namespace", "describe_namespace", "drop_namespace"} -> {1, 2}
    [] opname = "list_tables" -> {2}
    \* list_namespaces has no invalid depth: below a schema it lists nothing
    [] opname = "list_namespaces" -> Nat
    [] opname \in {"declare_table", "describe_table", "deregister_table"} -> {3}
    [] OTHER -> {}

\* C3: a Gravitino operation called with an identifier whose length is outside
\* the operation's valid range fails with InvalidInput and issues no call on
\* the REST client.
C3_DepthRejectedBeforeWire ==
  (/\ adapter = "gravitino"
   /\ res.op.name # "none"
   /\ Len(res.id) \notin GravValidDepths(res.op.name))
  => (res.err = "InvalidInput" /\ res.calls = <<>>)

\* list_tables of Gravitino was called with a three-level identifier
C3_Witness ==
  /\ adapter = "gravitino"
  /\ res.op.name = "list_tables"
  /\ Len(res.id) = 3
  /\ res.err = "InvalidInput"
  /\ res.calls = <<>>

\* the last call was made without an injected transport failure
NoFault ==
  IF adapter = "gravitino" THEN res.op.fs = 0 ELSE res.op.fault = 0

\* the namespace of the last call has a valid depth and is not in the backend
NamespaceAbsent ==
  IF adapter = "hive3" THEN Len(res.id) = 2 /\ ~HmsDbExists(res.id[2])
  ELSE IF adapter = "iceberg" THEN Len(res.id) >= 1 /\ ~IceNsExists(res.id)
  ELSE Len(res.id) \in {1, 2} /\ ~GravNsExists(res.id)

\* C4: in every adapter, drop_namespace on a namespace of valid depth that
\* does not exist returns success and raises no not-found error.
C4_DropAbsentNamespaceSucceeds ==
  (res.op.name = "drop_namespace" /\ NoFault /\ NamespaceAbsent) => res.err = "ok"

\* the table of the last call has a valid identifier and is not in the backend
TableAbsent ==
  IF adapter = "hive3" THEN
    /\ _normalize_identifier(res.id) # <<>>
    /\ ~HmsHasTable(_normalize_identifier(res.id)[2], _normalize_identifier(res.id)[3])
  ELSE IF adapter = "iceberg" THEN
    /\ Len(res.id) >= 2
    /\ ~IceHasTable(SubSeq(res.id, 1, Len(res.id) - 1), res.id[Len(res.id)])
  ELSE Len(res.id) = 3 /\ ~GravHasTable(res.id)

\* C5: removing the catalog entry of a table that does not exist
\* (deregister_table in Gravitino and Hive3, drop_table in Iceberg) succeeds
\* silently and raises no not-found error.
C5_RemoveAbsentTableSucceeds ==
  (/\ res.op.name = IF adapter = "iceberg" THEN "drop_table" ELSE "deregister_table"
   /\ NoFault
   /\ TableAbsent)
  => res.err = "ok"

\* the entry of the table the last call was about, and the location stored
\* with it
DescribedEntryLocation ==
  IF adapter = "hive3"
  THEN HmsTable(_normalize_identifier(res.id)[2], _normalize_identifier(res.id)[3]).location
  ELSE GravTable(res.id).location

\* the last call was a describe_table of Gravitino or Hive3 on a table that
\* is registered as a Lance table at a location, answered by the backend
\* without a failure
DescribedRegisteredTable ==
  /\ res.op.name = "describe_table"
  /\ \/ /\ adapter = "hive3"
        /\ res.op.fault = 0
        /\ TableCallEntryExists
        /\ LanceManaged(TableCallEntryProps)
        \* register_table is the writer that stores managed_by
        /\ MANAGED_BY_KEY \in DOMAIN TableCallEntryProps
     \/ /\ adapter = "gravitino"
        /\ res.op.fs = 0
        /\ ~res.op.ldm
        /\ res.op.shape = "dict_true"
        /\ Len(res.id) = 3
        /\ GravHasTable(res.id)
  /\ DescribedEntryLocation # NoLocation

\* C6: after a table is declared (Gravitino) or registered (Hive3) at a
\* location, describe_table on the same identifier returns that location.
C6_DescribeReturnsDeclaredLocation ==
  DescribedRegisteredTable =>
    (res.err = "ok" /\ res.location = DescribedEntryLocation)

\* the next call is a deregister_table on an existing Lance table, made
\* without an injected failure
DeregisterExistingStep ==
  /\ res = NoRes
  /\ res'.op.name = "deregister_table"
  /\ \/ /\ adapter = "hive3"
        /\ res'.op.fault = 0
        /\ _normalize_identifier(res'.id) # <<>>
        /\ HmsHasTable(_normalize_identifier(res'.id)[2], _normalize_identifier(res'.id)[3])
        /\ LanceManaged(HmsTable(_normalize_identifier(res'.id)[2],
                                 _normalize_identifier(res'.id)[3]).parameters)
     \/ /\ adapter = "gravitino"
        /\ res'.op.fs = 0
        /\ Len(res'.id) = 3
        /\ GravHasTable(res'.id)

\* what that step does in each adapter
DeregisterEffect ==
  IF adapter = "hive3" THEN
    LET nid == _normalize_identifier(res'.id)
        entry == HmsTable(nid[2], nid[3])
    IN /\ res'.err = "ok"
       /\ res'.location = entry.location
       /\ hiveTables' = hiveTables \ {entry}
       /\ hiveDbs' = hiveDbs
       /\ Len(res'.calls) = 2
       /\ res'.calls[1].fn = "get_table"
       /\ res'.calls[2].fn = "drop_table"
       /\ res'.calls[2].deleteData = FALSE
  ELSE
    LET entry == GravTable(res'.id)
    IN /\ res'.err = "ok"
       /\ res'.location = entry.location
       /\ gravTables' = gravTables \ {entry}
       /\ gravNs' = gravNs
       /\ Len(res'.calls) = 1
       /\ res'.calls[1].suffix = "/deregister"

\* the names a list_tables returned are names of entries of that namespace
ListedNamesAreEntries ==
  (res.op.name = "list_tables" /\ res.err = "ok" /\ adapter \in {"hive3", "gravitino"}
   /\ Len(res.id) >= 2)
  => IF adapter = "hive3"
     THEN Range(res.names) \subseteq HmsTablesOf(res.id[2])
     ELSE Range(res.names) \subseteq GravTablesOf(res.id)

StrictCreateExistingStep ==
  /\ res = NoRes
  /\ res'.op.name = "create_namespace"
  /\ \/ /\ adapter = "hive3"
        /\ res'.op.fault = 0
        /\ res'.op.mode \in {None, "CREATE"}
        /\ Len(res'.id) = 2
        /\ HmsDbExists(res'.id[2])
     \/ /\ adapter = "gravitino"
        /\ res'.op.fs = 0
        /\ Len(res'.id) \in {1, 2}
        /\ GravNsExists(res'.id)

\* C8: create_namespace in strict-create mode on a namespace that already
\* exists fails with an already-exists error and leaves the namespaces and
\* their properties as they were.
C8_StrictCreateOfExistingFails ==
  [][StrictCreateExistingStep =>
       /\ IF adapter = "hive3"
          THEN res'.err = "ValueError" /\ res'.msg = "already exists"
          ELSE res'.err = "NamespaceAlreadyExists"
       /\ UNCHANGED <<hiveDbs, hiveTables, gravNs, gravTables>>]_vars

\* Gravitino refused to create a catalog a second time
C8_Witness ==
  /\ adapter = "gravitino"
  /\ res.op.name = "create_namespace"
  /\ Len(res.id) = 1
  /\ GravNsExists(res.id)
  /\ res.err = "NamespaceAlreadyExists"
  /\ res.inner.status = 409

\* C9: the Gravitino codec is invertible: no other sequence of non-empty
\* segments has the wire path of the encoded one, and the table name
\* list_tables extracts from the composite "$"-joined identifier is the
\* table segment.
C9_CodecIsInvertible ==
  /\ codec.stage \in {"encoded", "listed"} =>
       \A other \in CodecInputs :
         other # codec.segs => _encode_namespace_path(other) # codec.path
  /\ codec.stage = "listed" => codec.listed = codec.segs[Len(codec.segs)]

\* the errors of the shared taxonomy each adapter raises
SharedErrors ==
  IF adapter = "gravitino"
  THEN {"InvalidInput", "NamespaceNotFound", "NamespaceAlreadyExists",
        "TableNotFound", "TableAlreadyExists", "Internal"}
  ELSE {"LanceNamespaceException"}

\* C10: a shared error raised inside the guarded block of a Gravitino or
\* Iceberg operation reaches the caller with the same kind and status, and a
\* raw failure of the REST client leaves the operation as a shared error (or
\* as the success the operation defines for it), never as the raw exception.
C10_SharedErrorsPropagate ==
  (adapter \in {"gravitino", "iceberg"} /\ res.inner.cls # "none") =>
    IF res.inner.cls \in SharedErrors
    THEN res.err = res.inner.cls /\ res.status = res.inner.status
    ELSE /\ res.inner.cls = "RestClientException"
         /\ res.err \in SharedErrors \cup {"ok"}

\* Gravitino's describe_table raised TableNotFound inside its try block
\* because the exists check answered false, and the caller received it
C10_Witness ==
  /\ adapter = "gravitino"
  /\ res.op.name = "describe_table"
  /\ res.inner.cls = "TableNotFound"
  /\ Len(res.calls) = 1
  /\ res.err = "TableNotFound"

\* the shared error the spec's table gives a failure of the REST client, by
\* HTTP status and by the operation that met it
GravExpectedError(opname, status) ==
  CASE status = 400 -> "InvalidInput"
    [] status = 404 /\ opname \in {"describe_namespace", "declare_table"} -> "NamespaceNotFound"
    [] status = 404 /\ opname = "describe_table" -> "TableNotFound"
    [] status = 409 /\ opname = "create_namespace" -> "NamespaceAlreadyExists"
    [] status = 409 /\ opname = "declare_table" -> "TableAlreadyExists"
    [] OTHER -> "Internal"

\* C11: in Gravitino's create_namespace, describe_namespace, declare_table and
\* describe_table a failure of the backend is translated by its HTTP status:
\* 400 to InvalidInput, 404 to the not-found error of the call, 409 to the
\* already-exists error of the call, anything else to Internal.
C11_StatusTranslation ==
  (/\ adapter = "gravitino"
   /\ res.op.name \in {"create_namespace", "describe_namespace", "declare_table",
                       "describe_table"}
   /\ res.inner.cls = "RestClientException")
  => res.err = GravExpectedError(res.op.name, res.inner.status)

\* C12: in every adapter describe_table called with load_detailed_metadata
\* set fails with InvalidInput and issues no call to the backend.
C12_DetailedMetadataRejected ==
  (res.op.name = "describe_table" /\ res.op.ldm)
  => (res.err = "InvalidInput" /\ res.calls = <<>>)

\* the namespace of the last call has a valid non-root depth and is not in
\* the backend
DescribedNamespaceAbsent ==
  IF adapter = "hive3" THEN
    \/ Len(res.id) = 1 /\ Lower(res.id[1]) \notin HmsCatalogs
    \/ Len(res.id) = 2 /\ ~HmsDbExists(res.id[2])
  ELSE IF adapter = "iceberg" THEN Len(res.id) >= 1 /\ ~IceNsExists(res.id)
  ELSE Len(res.id) \in {1, 2} /\ ~GravNsExists(res.id)

\* the last call ended with the not-found error of its adapter
NamespaceNotFoundRaised ==
  IF adapter = "hive3" THEN res.err = "ValueError" /\ res.msg = "does not exist"
  ELSE IF adapter = "iceberg" THEN res.err = "LanceNamespaceException" /\ res.status = 404
  ELSE res.err = "NamespaceNotFound"

\* C13: in every adapter describe_namespace and namespace_exists on a
\* namespace of valid non-root depth that is not in the backend fail with a
\* not-found error.
C13_AbsentNamespaceNotFound ==
  (/\ res.op.name \in {"describe_namespace", "namespace_exists"}
   /\ NoFault
   /\ DescribedNamespaceAbsent)
  => NamespaceNotFoundRaised

\* the namespaces and the tables of the three backends, with their properties
catalogVars == <<hiveDbs, hiveTables, iceNs, iceTables, gravNs, gravTables>>

\* C14: every adapter operation is all-or-nothing: a call that raises an
\* error leaves the backend catalog exactly as it was before the call.
C14_FailedCallChangesNothing ==
  [][(res = NoRes /\ res'.err \notin {"none", "ok"}) => UNCHANGED catalogVars]_vars

\* the names of a sequence are in strictly ascending lexicographic order
StrictlyAscending(names) ==
  \A i, j \in DOMAIN names :
    i < j => IF adapter = "gravitino"
             THEN names[i] # names[j] /\ StrLeq(names[i], names[j])
             ELSE NameRank(names[i]) < NameRank(names[j])

\* C15: list_namespaces and list_tables of every adapter return their names
\* without duplicates and in ascending lexicographic order, whatever the
\* order of the backend's answer.
C15_ListsSortedAndDistinct ==
  (res.op.name \in {"list_namespaces", "list_tables"} /\ res.err = "ok")
  => StrictlyAscending(res.names)

\* the names list_namespaces is to return for the identifier of the last call:
\* the children of that namespace, bare at the root and as "parent.child"
\* below a catalog
QualifiedChildren ==
  {IF res.id = <<>> THEN c[Len(c)] ELSE res.id[1] \o <<".">> \o c[Len(c)] :
     c \in GravChildren(res.id)}

\* C20: Gravitino list_namespaces never fails for lack of content: at the
\* root it returns the bare top-level names (an empty list on a 404), below a
\* catalog it returns each child as "parent.child" (an empty list when the
\* catalog is unknown), and with two or more segments it returns an empty
\* list without a REST call.
C20_ListNamespacesByDepth ==
  (adapter = "gravitino" /\ res.op.name = "list_namespaces" /\ res.op.fs \in {0, 404})
  => /\ res.err = "ok"
     /\ Len(res.id) >= 2 => (res.names = <<>> /\ res.calls = <<>>)
     /\ (Len(res.id) < 2 /\ res.inner.status = 404) => res.names = <<>>
     /\ (Len(res.id) < 2 /\ res.inner.status # 404) =>
          /\ Range(res.names) \subseteq QualifiedChildren
          /\ res.op.shape # "empty" => Range(res.names) = QualifiedChildren

HiveTableOps ==
  {"describe_table", "register_table", "table_exists", "deregister_table",
   "create_empty_table"}

\* an identifier of 1 to 3 segments padded on the left with the default
\* catalog and the default database
LeftPadded(id) ==
  <<IF Len(id) = 3 THEN id[1] ELSE "hive",
    IF Len(id) = 1 THEN "default" ELSE id[Len(id) - 1],
    id[Len(id)]>>

\* C19: every Hive3 table operation accepts identifiers of 1 to 3 segments
\* and resolves them by left-padding, so that its metastore calls address the
\* padded database and table; an identifier of 0 or of 4 or more segments is
\* rejected with an error before any metastore call.
C19_TableIdentifierLeftPadded ==
  (adapter = "hive3" /\ res.op.name \in HiveTableOps)
  => IF Len(res.id) \in 1..3 THEN
       /\ _normalize_identifier(res.id) = LeftPadded(res.id)
       /\ ~(res.err = "ValueError" /\ res.msg = "Invalid identifier")
       /\ \A i \in DOMAIN res.calls :
            /\ res.calls[i].db = LeftPadded(res.id)[2]
            /\ res.calls[i].tbl = LeftPadded(res.id)[3]
     ELSE
       /\ res.err \notin {"ok", "none"}
       /\ res.calls = <<>>

\* create_empty_table stored a table named by one segment in the default
\* database, and one named by two segments in that database
C19_Witness ==
  /\ adapter = "hive3"
  /\ res.op.name = "create_empty_table"
  /\ res.err = "ok"
  /\ res.id = <<"d1", "t2">>
  /\ res.calls = <<[fn |-> "create_table", db |-> "d1", tbl |-> "t2"]>>
  /\ HmsHasTable("d1", "t2")
  /\ HmsHasTable("default", "t1")

\* the next call is given the empty (root) identifier
RootStep(opnames) ==
  /\ res = NoRes
  /\ res'.op.name \in opnames
  /\ res'.id = <<>>

\* C18: create_namespace and drop_namespace on the root identifier fail,
\* issue no backend call and leave the catalog unchanged (Hive3 and
\* Gravitino); in Hive3 namespace_exists, describe_namespace and list_tables
\* on the root succeed without contacting the metastore, list_tables with an
\* empty list and describe_namespace with the configured root location.
C18_RootIsRestricted ==
  [][/\ (adapter \in {"hive3", "gravitino"}
         /\ RootStep({"create_namespace", "drop_namespace"}))
        => /\ res'.err \notin {"ok", "none"}
           /\ res'.calls = <<>>
           /\ UNCHANGED <<catalogVars, hiveClient>>
     /\ (adapter = "hive3"
         /\ RootStep({"namespace_exists", "describe_namespace", "list_tables"}))
        => /\ res'.err = "ok"
           /\ res'.calls = <<>>
           /\ UNCHANGED <<catalogVars, hiveClient>>
           /\ res'.op.name = "list_tables" => res'.names = <<>>
           /\ res'.op.name = "describe_namespace"
                => DictGet(res'.properties, "location", NoLocation) = <<HiveRoot>>
    ]_vars

\* Hive3 described the root of a metastore that holds a database of its own,
\* without a metastore call
C18_Witness ==
  /\ adapter = "hive3"
  /\ res.op.name = "describe_namespace"
  /\ res.id = <<>>
  /\ res.err = "ok"
  /\ res.calls = <<>>
  /\ res.properties.location = <<HiveRoot>>
  /\ HmsDbExists("d1")

\* thread t is between acquiring the client and finishing its metastore calls
InsideBlock(t) == t <= conc.n /\ conc.pc[t] = "body"

\* the transport thread t was handed is the client's transport and is open
TransportIntact(t) == conc.client.open /\ conc.client.transport = conc.mine[t]

\* C16: when operations run concurrently on one Hive3Namespace instance, the
\* Thrift transport of an operation is never closed or replaced by another
\* operation while the first is between acquiring the client and finishing
\* its metastore calls.
C16_TransportNeverTakenAway ==
  conc.n > 0 => \A t \in Threads : InsideBlock(t) => TransportIntact(t)

\* thread t leaves an operation in this step, by return or by raise
LeavesOperation(t) == t <= conc.n /\ conc.pc[t] # "idle" /\ conc'.pc[t] = "idle"

\* thread t issues a metastore call in this step
IssuesCall(t) == InsideBlock(t) /\ conc' # conc /\ conc'.pc[t] \in {"body", "exit"}

C21_DatabasesInReportedOrder ==
  (/\ adapter = "hive3"
   /\ res.op.name = "list_namespaces"
   /\ Len(res.id) = 1
   /\ res.op.fault = 0)
  => LET reply == res.calls[1].reply
     IN /\ res.err = "ok"
        /\ Range(res.names) = Range(reply) \ {"default"}
        /\ Len(res.names) = Cardinality(Range(res.names))
        /\ \A i, j \in DOMAIN res.names :
             i < j => \E a, b \in DOMAIN reply :
                        a < b /\ reply[a] = res.names[i] /\ reply[b] = res.names[j]

\* the metastore reported three databases with "default" in the middle and
\* the other two out of lexicographic order
C21_Witness ==
  /\ adapter = "hive3"
  /\ res.op.name = "list_namespaces"
  /\ res.calls = <<[fn |-> "get_all_databases", reply |-> <<"d2", "default", "d1">>]>>
  /\ res.names = <<"d2", "d1">>

Configuration(dict) ==
  [f \in {"uri", "root", "ugi", "pool_size", "storage_properties"} |-> dict[f]]

\* C23: a Hive3Namespace creates its metastore client lazily.  A constructed
\* or restored object holds no client and none was constructed for it; the
\* first access to the client constructs exactly one, from the configured
\* (uri, ugi); later accesses construct nothing and return the same client;
\* a pickle round trip keeps uri, root, ugi, pool size and storage properties
\* and leaves the restored object without a client.
C23_LazyClientSurvivesPickle ==
  /\ [](inst.obj > 0 =>
         /\ inst.last \in {"__init__", "pickle"} =>
              inst.dict._client = NoneClient /\ inst.made = <<>>
         /\ inst.last = "client" =>
              /\ inst.made = <<[uri |-> inst.dict.uri, ugi |-> inst.dict.ugi]>>
              /\ inst.dict._client.serial = 1
              /\ inst.dict._client.uri = inst.dict.uri
              /\ inst.dict._client.ugi = inst.dict.ugi)
  /\ [][/\ (inst.obj > 0 /\ inst'.last = "client"
            /\ inst.dict._client # NoneClient)
           => (inst'.dict._client = inst.dict._client /\ inst'.made = inst.made)
        /\ (inst.obj > 0 /\ inst'.last = "pickle" /\ inst'.obj # inst.obj)
           => (/\ Configuration(inst'.dict) = Configuration(inst.dict)
               /\ inst'.dict._client = NoneClient)]_vars

\* a restored copy of an object that had a client, constructed from
\* properties that set every key, was asked for its client
C23_Witness ==
  /\ inst.obj = 2
  /\ inst.last = "client"
  /\ Len(inst.made) = 1
  /\ Configuration(inst.dict) =
       [uri |-> "thrift://hms:9083", root |-> "/warehouse",
        ugi |-> "alice:staff", pool_size |-> 5,
        storage_properties |-> [region |-> "eu-west-1"]]
  /\ inst.made[1] = [uri |-> "thrift://hms:9083", ugi |-> "alice:staff"]

\* C24: Hive3 create_namespace and drop_namespace with a one-segment
\* identifier fail with an explicit error; they never report success.
C24_CatalogLevelUnsupported ==
  (/\ adapter = "hive3"
   /\ res.op.name \in {"create_namespace", "drop_namespace"}
   /\ Len(res.id) = 1)
  => res.err # "ok"

\* the properties of the entry that the last call, a successful write of a
\* table entry, was about
WrittenProperties ==
  IF adapter = "hive3"
  THEN HmsTable(_normalize_identifier(res.id)[2],
                _normalize_identifier(res.id)[3]).parameters
  ELSE IceTable(SubSeq(res.id, 1, Len(res.id) - 1), res.id[Len(res.id)]).properties

\* C25: after a successful Hive3 register_table or create_empty_table and
\* after a successful Iceberg create_empty_table, the entry that was written
\* stores table_type = 'lance', whatever properties the request carried.
C25_WrittenEntriesAreLance ==
  (/\ adapter \in {"hive3", "iceberg"}
   /\ res.op.name \in {"register_table", "create_empty_table"}
   /\ res.err = "ok")
  => /\ TABLE_TYPE_KEY \in DOMAIN WrittenProperties
     /\ WrittenProperties[TABLE_TYPE_KEY] = LANCE_TABLE_FORMAT

\* a create_namespace call on a database the metastore already holds, whose
\* metastore calls all go through
CreateOnExisting ==
  /\ adapter = "hive3"
  /\ res = NoRes
  /\ res'.op.name = "create_namespace"
  /\ res'.op.fault = 0
  /\ Len(res'.id) = 2
  /\ HmsDbExists(res'.id[2])

RequestedMode == IF res'.op.mode = None THEN "create" ELSE Lower(res'.op.mode)

\* C26: Hive3 create_namespace on a database that exists follows the mode of
\* the request.  'create' or no mode: an already-exists error, databases and
\* tables unchanged; 'exist_ok': success, databases and tables unchanged;
\* 'overwrite' (on a database the metastore lets go of): success, and the
\* database is the one built from the request, without tables; any other
\* mode: no success.
C26_ModeOnExistingDatabase ==
  [][CreateOnExisting =>
       /\ RequestedMode = "create" =>
            /\ res'.err = "ValueError" /\ res'.msg = "already exists"
            /\ UNCHANGED <<hiveDbs, hiveTables>>
       /\ RequestedMode = "exist_ok" =>
            /\ res'.err = "ok"
            /\ UNCHANGED <<hiveDbs, hiveTables>>
       /\ (RequestedMode = "overwrite" /\ Lower(res'.id[2]) # "default") =>
            /\ res'.err = "ok"
            /\ hiveDbs' = DbsWithout(res'.id[2])
                            \cup {HiveDatabaseOf(Lower(res'.id[2]), res'.op.props)}
            /\ {t \in hiveTables' : t.dbName = Lower(res'.id[2])} = {}
       /\ RequestedMode \notin {"create", "exist_ok", "overwrite"} =>
            res'.err # "ok"]_vars

\* the last call named another catalog than the one that was written, and
\* no call to the metastore was made to fail
OtherCatalogCall ==
  /\ adapter = "hive3"
  /\ res # NoRes
  /\ Len(res.id) >= 1
  /\ Lower(res.id[1]) # WrittenCatalog
  /\ res.op.fault = 0

\* C27: when every database and table was created through the catalog 'hive',
\* a call that names another catalog meets none of them: describe_table
\* returns no table, table_exists and deregister_table report that the table
\* does not exist, and list_tables and list_namespaces return nothing.
C27_CatalogsAreApart ==
  OtherCatalogCall =>
    /\ res.op.name = "describe_table" => res.err # "ok"
    /\ res.op.name \in {"table_exists", "deregister_table"} =>
         res.err = "ValueError" /\ res.msg = "does not exist"
    /\ res.op.name \in {"list_tables", "list_namespaces"} =>
         res.err # "ok" \/ res.names = <<>>

\* the stored tables whose database is the segment up to letter case
TablesUnder(segment) == {t \in hiveTables : Lower(t.dbName) = Lower(segment)}

DroppedTogether(t, u) ==
  /\ t # u
  /\ conc.pc[t] = "done" /\ conc.pc[u] = "done"
  /\ conc.id[t] = conc.id[u]
  /\ Len(conc.id[t]) >= 2
  /\ \E x \in conc.initial :
       x.ns = SubSeq(conc.id[t], 1, Len(conc.id[t]) - 1) /\ x.name = conc.id[t][Len(conc.id[t])]
  /\ ~conc.faulted[t] /\ ~conc.faulted[u]

\* C29: when two Iceberg drop_table calls for the same existing table
\* interleave, both return success.
C29_ConcurrentDropsSucceed ==
  \A t, u \in 1..conc.n :
    DroppedTogether(t, u) => conc.out[t].err = "ok" /\ conc.out[u].err = "ok"

\* list_tables is back, and no call of its own was made to fail
ListingOver == conc.n = 1 /\ conc.pc = "done" /\ ~conc.faulted

\* the catalog held a Lance-managed table under the name when the lister
\* looked it up
LanceAtLookup(name) ==
  \E k \in DOMAIN conc.looked :
    /\ conc.looked[k].name = name
    /\ \E props \in conc.looked[k].found : LanceManaged(props)

\* C30: Hive3 and Iceberg list_tables return successfully although another
\* caller removes tables of the namespace between the listing call and the
\* lookups, and every name returned was a Lance-managed table of the
\* namespace when it was looked up.
C30_ListingToleratesRemovals ==
  ListingOver =>
    /\ conc.out.err = "ok"
    /\ \A name \in Range(conc.out.names) : LanceAtLookup(name)

\* a table was removed after the listing call had reported it and before its
\* lookup, and list_tables returned another table of the listing
C30_Witness ==
  /\ ListingOver
  /\ Len(conc.names) = 2
  /\ Len(conc.out.names) = 1
  /\ \E k \in DOMAIN conc.looked : conc.looked[k].found = {}

====
